---- MODULE Spec2Model ----
(***************************************************************************)
(* Event ingestion / append-only ledger / sequential projection pipeline   *)
(* of the NFT rental marketplace backend.                                  *)
(*                                                                         *)
(*   ChainListener (backend/src/services/chainListener.ts)                 *)
(*   Projector     (backend/src/services/projector.ts, retry variant)      *)
(*   Listing API   (backend/src/controllers/marketplace.controller.ts)     *)
(*                                                                         *)
(* Numbers that the code carries as decimal strings or bigint (tokenId,    *)
(* onChainListingId, prices) are small naturals here: every value used is  *)
(* far below 2^53, where String/Number/toString round-trip exactly.        *)
(* Addresses keep their letter case: the chain emits checksummed (upper    *)
(* case) addresses and the code lower-cases them with toLowerCase().       *)
(* Wall-clock timestamps (createdAt, updatedAt, confirmedAt) are left out. *)
(***************************************************************************)
EXTENDS Integers, Sequences, FiniteSets, TLC

\* ------------------------------------------------------------------ bounds
MaxHeight == 4          \* highest block the external ledger reaches
BATCH_SIZE == 2         \* BACKFILL_BATCH_SIZE (environment, default 10)
REORG_GUARD == 2        \* REORG_GUARD (environment, default 12)
MAX_RETRIES == 2        \* BACKFILL_MAX_RETRIES (environment, default 3)
ExtraFaults == 1        \* transport faults beyond those of one exhausted range
MaxLost == 1            \* ledger writes that fail inside enqueueEvent
MaxThrows == 5          \* storage faults injected into projector handlers
MaxRestarts == 1        \* process restarts in one run
MaxDocs == 3            \* listing documents ever created
MaxRebuilds == 1        \* runs of the rebuild tool in one run
MaxToken == 1           \* tokens the asset contract mints
MaxListingId == 2       \* listings the marketplace contract creates
MaxDays == 7            \* largest daysToRent / maxDuration of a call
MaxValue == 8           \* largest msg.value of a call
MaxTime == 3            \* largest block.timestamp
MaxTx == 5              \* transactions the contracts execute in one run
DAY == 2                \* 1 days (86400 seconds), scaled down
UINT64 == 16            \* 2^64, scaled down with DAY

\* ------------------------------------------------------- program constants
SAFETY_WINDOW == 100    \* first-run checkpoint = current height - 100
MAX_EVENT_RETRIES == 5  \* projector gives up on an entry at 5 retries
REBUILD_WINDOW == 50000 \* rebuild checkpoint = current height - 50000

NoVal == 0              \* null / missing field
NoState == -1           \* no SyncState document

MaxTransportFaults == MAX_RETRIES + 1 + ExtraFaults

\* ---------------------------------------------------------------- helpers
Max(a, b) == IF a >= b THEN a ELSE b

Min(a, b) == IF a <= b THEN a ELSE b

\* String.prototype.toLowerCase on the addresses of the model
Lower(a) ==
    CASE a = "A" -> "a"
      [] a = "B" -> "b"
      [] a = "N" -> "n"
      [] a = "M" -> "m"
      [] OTHER -> a

NFT_ADDRESS == "N"      \* process.env.CONTRACT_ADDRESS (checksummed)

MARKET_ADDRESS == "M"   \* process.env.MARKETPLACE_ADDRESS (checksummed)

\* the four event kinds in the order processBatch queries them
KindOrder == <<"NFTMinted", "ListingCreated", "Rented", "ListingCancelled">>

\* ------------------------------------------------- the external ledger
\* One raw log of the ledger. tx = "" is a log without transactionHash;
\* price is pricePerDay of a listing and totalPrice of a rental.
Log(blk, idx, tx, kind, tokenId, who, lid, price, expires) ==
    [blk |-> blk, idx |-> idx, tx |-> tx, kind |-> kind, tokenId |-> tokenId,
     who |-> who, lid |-> lid, price |-> price, expires |-> expires]

\* mint -> listing -> rental (the scenario of the design document)
ChainRent ==
    { Log(1, 0, "t1", "NFTMinted", 1, "A", NoVal, NoVal, NoVal),
      Log(2, 0, "t2", "ListingCreated", 1, "A", 7, 5, NoVal),
      Log(3, 1, "t3", "Rented", 1, "B", 7, 10, 9) }

\* a listing by a non-owner, a listing in the block before a later mint,
\* and a cancellation
ChainReject ==
    { Log(1, 0, "t1", "NFTMinted", 1, "A", NoVal, NoVal, NoVal),
      Log(2, 0, "t2", "ListingCreated", 1, "B", 8, 5, NoVal),
      Log(3, 0, "t3", "ListingCreated", 1, "A", 7, 6, NoVal),
      Log(4, 0, "t4", "NFTMinted", 2, "B", NoVal, NoVal, NoVal),
      Log(4, 1, "t5", "ListingCancelled", 1, "", 7, NoVal, NoVal) }

\* two listings of one token by its owner (listNFT permits it), a rental
\* of the second one, and a log that carries no transaction hash
ChainDouble ==
    { Log(1, 0, "t1", "NFTMinted", 1, "A", NoVal, NoVal, NoVal),
      Log(2, 0, "", "NFTMinted", 2, "B", NoVal, NoVal, NoVal),
      Log(2, 1, "t2", "ListingCreated", 1, "A", 7, 5, NoVal),
      Log(3, 0, "t3", "ListingCreated", 1, "A", 8, 6, NoVal),
      Log(4, 0, "t4", "Rented", 1, "B", 8, 12, 9) }

Scenarios == {ChainRent, ChainReject, ChainDouble}

\* a listing by a non-owner, then a rental and a cancellation of that
\* listing id
ChainOrphan ==
    { Log(1, 0, "t1", "NFTMinted", 1, "A", NoVal, NoVal, NoVal),
      Log(2, 0, "t2", "ListingCreated", 1, "B", 8, 5, NoVal),
      Log(3, 0, "t3", "Rented", 1, "A", 8, 10, 9),
      Log(4, 0, "t4", "ListingCancelled", 1, "", 8, NoVal, NoVal) }

NoIndex == -1           \* log.index is undefined

\* a log whose data does not fit the ABI comes back from queryFilter
\* without decoded arguments: log.args.tokenId is undefined
Undecoded(log) == log.tokenId = NoVal

\* a mint whose data cannot be decoded, between two well-formed mints
ChainUndecoded ==
    { Log(1, 0, "t1", "NFTMinted", 1, "A", NoVal, NoVal, NoVal),
      Log(1, 1, "t2", "NFTMinted", NoVal, "", NoVal, NoVal, NoVal),
      Log(2, 0, "t3", "NFTMinted", 2, "B", NoVal, NoVal, NoVal),
      Log(2, 1, "t4", "ListingCreated", 1, "A", 7, 5, NoVal) }

\* a mint without transaction hash, an undecodable listing without
\* transaction hash and a listing without log index, among well-formed logs
ChainNoHash ==
    { Log(1, 0, "t1", "NFTMinted", 1, "A", NoVal, NoVal, NoVal),
      Log(1, 1, "", "NFTMinted", 2, "B", NoVal, NoVal, NoVal),
      Log(2, 0, "", "ListingCreated", NoVal, "", NoVal, NoVal, NoVal),
      Log(2, 1, "t2", "ListingCreated", 1, "A", 7, 5, NoVal),
      Log(3, NoIndex, "t3", "ListingCreated", 1, "A", 8, 6, NoVal),
      Log(3, 1, "t4", "Rented", 1, "B", 7, 10, 9) }

Users == {"a", "b"}

VARIABLES
    chain,                \* the logs the external ledger holds (all blocks)
    height,               \* current block number of the external ledger
    events,               \* Event Ledger collection
    syncState,            \* SyncState 'market_listener'.lastProcessedBlock
    contractsReady,       \* addresses and ABIs are configured
    lpc,                  \* position of the listener
    startReturned,        \* chainListener.start() has returned once
    lastProcessedBlock,   \* ChainListener.lastProcessedBlock
    lastRealtimeBlock,    \* ChainListener.lastRealtimeBlock
    latestBlock,          \* backfillEvents: latestBlock
    bFrom, bTo,           \* range being scanned
    bPhase,               \* processBatch: index of the kind queried next
    bRetries,             \* retries of the range being scanned
    haltedFrom,           \* first block of the range backfill gave up on
    ppc,                  \* position of the projector loop
    isRunning,            \* Projector.isRunning
    cur,                  \* the entry processNextPending holds in memory
    pstep,                \* next write of the running handler
    hlisting,             \* handleRented: the listing document it read
    pre,                  \* derived records when cur was first fetched
    nfts, listings, rentals, drafts,   \* derived collections
    nextDoc,              \* next document id / draft id
    tfaults,              \* transport faults so far
    lost,                 \* failed ledger writes so far
    throws,               \* storage faults in handlers so far
    restarts,             \* process restarts so far
    rebuilds,             \* runs of the rebuild tool so far
    snap,                 \* derived records when the rebuild tool last ran
    snapDone,             \* no entry was pending or in application then
    rebuildStep,          \* position of a running rebuild tool (0: not running)
    polls,                \* executions of pollOnce started while one is running
    marketListings,       \* DAOMarketplaceMarket.listings
    nextListingId,        \* DAOMarketplaceMarket._nextListingId
    paused,               \* Pausable._paused of the marketplace
    tokenOwner,           \* asset contract: ownerOf (by token id)
    approvedAll,          \* owners with isApprovedForAll(owner, marketplace)
    tokenApproved,        \* getApproved(tokenId) = marketplace (by token id)
    tokenUser,            \* asset contract: user of a token (ERC-4907)
    userExpires,          \* asset contract: expiry of that user
    now,                  \* block.timestamp
    emitted,              \* the event of the last transaction
    lastTx,               \* the call of the last transaction
    txCount,              \* transactions executed so far
    platformFeeBasisPoints,   \* DAOMarketplaceMarket.platformFeeBasisPoints
    marketBalance,        \* wei held by the marketplace contract
    paid                  \* the value transfers of the last transaction

lvars == <<lpc, startReturned, lastProcessedBlock, lastRealtimeBlock,
           latestBlock, bFrom, bTo, bPhase, bRetries, haltedFrom>>

pvars == <<ppc, isRunning, cur, pstep, hlisting, pre>>

dvars == <<nfts, listings, rentals, drafts, nextDoc>>

rvars == <<rebuilds, snap, snapDone, rebuildStep>>

fvars == <<platformFeeBasisPoints, marketBalance, paid>>

cvars == <<marketListings, nextListingId, paused, tokenOwner, approvedAll,
           tokenApproved, tokenUser, userExpires, now, emitted, lastTx, txCount,
           fvars>>

vars == <<chain, height, events, syncState, contractsReady, lvars, pvars,
          dvars, tfaults, lost, throws, restarts, rvars, cvars, polls>>

envvars == <<tfaults, lost, throws, restarts>>

\* ------------------------------------------------------------- Event Ledger
NoArgs == [tokenId |-> NoVal, who |-> "", lid |-> NoVal, tokenAddress |-> "",
           price |-> NoVal, expires |-> NoVal, metadataHash |-> NoVal]

NoEvent == [txHash |-> "", logIndex |-> 0, blockNumber |-> 0,
            contractAddress |-> "", eventName |-> "", args |-> NoArgs,
            status |-> "", retries |-> 0]

\* bytes32 metadataHash the contracts emit for a token
MetadataHashOf(tokenId) == 10 + tokenId

\* (blockNumber, logIndex) order of the ledger
Before(e1, e2) ==
    \/ e1.blockNumber < e2.blockNumber
    \/ e1.blockNumber = e2.blockNumber /\ e1.logIndex < e2.logIndex

SameKey(e1, e2) == e1.txHash = e2.txHash /\ e1.logIndex = e2.logIndex

\* the QueuedEvent processBatch builds from a raw log
Decode(log) ==
    [txHash |-> log.tx, logIndex |-> log.idx, blockNumber |-> log.blk,
     contractAddress |-> IF log.kind = "NFTMinted" THEN NFT_ADDRESS
                         ELSE MARKET_ADDRESS,
     eventName |-> log.kind,
     args |-> [tokenId |-> log.tokenId, who |-> log.who, lid |-> log.lid,
               tokenAddress |-> IF log.kind = "NFTMinted" THEN ""
                                ELSE NFT_ADDRESS,
               price |-> log.price, expires |-> log.expires,
               metadataHash |->
                   IF log.kind \in {"NFTMinted", "ListingCreated"}
                   THEN MetadataHashOf(log.tokenId) ELSE NoVal]]

\* enqueueEvent writing its fields with $set instead of $setOnInsert
EnqueueEventSet(evs, q) ==
    {e \in evs : ~(e.txHash = q.txHash /\ e.logIndex = q.logIndex)} \cup
    {[txHash |-> q.txHash, logIndex |-> q.logIndex,
      blockNumber |-> q.blockNumber,
      contractAddress |-> Lower(q.contractAddress),
      eventName |-> q.eventName, args |-> q.args,
      status |-> "pending", retries |-> 0]}

\* enqueueEvent putting status in $set and the other fields in $setOnInsert
EnqueueEventResetStatus(evs, q) ==
    IF \E e \in evs : e.txHash = q.txHash /\ e.logIndex = q.logIndex
    THEN {IF e.txHash = q.txHash /\ e.logIndex = q.logIndex
          THEN [e EXCEPT !.status = "pending"] ELSE e : e \in evs}
    ELSE evs \cup {[txHash |-> q.txHash, logIndex |-> q.logIndex,
                    blockNumber |-> q.blockNumber,
                    contractAddress |-> Lower(q.contractAddress),
                    eventName |-> q.eventName, args |-> q.args,
                    status |-> "pending", retries |-> 0]}

\* enqueueEvent: a logIndex that is not a number is skipped, else
\* EventModel.updateOne({txHash, logIndex}, {$setOnInsert: ...}, {upsert})
EnqueueEvent(evs, q) ==
    IF q.logIndex = NoIndex THEN evs
    ELSE IF \E e \in evs : e.txHash = q.txHash /\ e.logIndex = q.logIndex
    THEN evs
    ELSE evs \cup {[txHash |-> q.txHash, logIndex |-> q.logIndex,
                    blockNumber |-> q.blockNumber,
                    contractAddress |-> Lower(q.contractAddress),
                    eventName |-> q.eventName, args |-> q.args,
                    status |-> "pending", retries |-> 0]}

RECURSIVE EnqueueAll(_, _)
EnqueueAll(evs, qs) ==
    IF qs = {} THEN evs
    ELSE LET q == CHOOSE x \in qs : TRUE
         IN EnqueueAll(EnqueueEvent(evs, q), qs \ {q})

\* queryFilter(filter, from, to): the logs of one kind in a block range
QueryFilter(kind, from, to) ==
    {l \in chain : l.kind = kind /\ l.blk >= from /\ l.blk <= to
                   /\ l.blk <= height}

\* processBatch without the test of log.transactionHash
EnqueueableUnhashed(kind, from, to) ==
    {Decode(l) : l \in QueryFilter(kind, from, to)}

\* the logs of one kind that processBatch hands to enqueueEvent
Enqueueable(kind, from, to) ==
    {Decode(l) : l \in {x \in QueryFilter(kind, from, to) : x.tx # ""}}

\* the logs on which building the QueuedEvent throws a TypeError
Throwers(kind, from, to) ==
    {l \in QueryFilter(kind, from, to) : l.tx # "" /\ Undecoded(l)}

\* the logs processBatch has handed to enqueueEvent when the first
\* undecodable log of the queried kind makes it throw
EnqueuedBeforeThrow(kind, from, to) ==
    {Decode(l) : l \in {x \in QueryFilter(kind, from, to) :
        /\ x.tx # ""
        /\ \A t \in Throwers(kind, from, to) :
               x.blk < t.blk \/ (x.blk = t.blk /\ x.idx < t.idx)}}

\* ------------------------------------------------------------- Listener
\* loadState resuming at the stored checkpoint itself
LoadedBlockNoGuard ==
    IF syncState # NoState THEN syncState
    ELSE Max(0, height - SAFETY_WINDOW)

\* loadState: in-memory start block and SyncState document afterwards
LoadedBlock ==
    IF syncState # NoState THEN Max(0, syncState - REORG_GUARD)
    ELSE Max(0, height - SAFETY_WINDOW)

LoadedState == IF syncState # NoState THEN syncState ELSE LoadedBlock

\* start() rejecting instead of returning when the contracts are missing
ListenerStartDegradedThrows ==
    /\ lpc \in {"off", "retryWait"}
    /\ ~contractsReady
    /\ lpc' = "degraded"
    /\ startReturned' = FALSE
    /\ UNCHANGED <<cvars, rvars, polls, chain, height, events, syncState, contractsReady,
                   lastProcessedBlock, lastRealtimeBlock, latestBlock,
                   bFrom, bTo, bPhase, bRetries, haltedFrom, pvars, dvars,
                   envvars>>

\* start(): contracts missing -> degraded no-op mode
ListenerStartDegraded ==
    /\ lpc \in {"off", "retryWait"}
    /\ ~contractsReady
    /\ lpc' = "degraded"
    /\ startReturned' = TRUE
    /\ UNCHANGED <<cvars, rvars, polls, chain, height, events, syncState, contractsReady,
                   lastProcessedBlock, lastRealtimeBlock, latestBlock,
                   bFrom, bTo, bPhase, bRetries, haltedFrom, pvars, dvars,
                   envvars>>

\* start(): initContracts, loadState, head of backfillEvents
ListenerStart ==
    /\ lpc \in {"off", "retryWait"}
    /\ contractsReady
    /\ lastProcessedBlock' = LoadedBlock
    /\ syncState' = LoadedState
    /\ latestBlock' = height
    /\ bFrom' = LoadedBlock
    /\ lpc' = "backfill"
    /\ haltedFrom' = NoState
    /\ UNCHANGED <<cvars, rvars, polls, chain, height, events, contractsReady, startReturned,
                   lastRealtimeBlock, bTo, bPhase, bRetries, pvars, dvars,
                   envvars>>

\* start(): getBlockNumber of backfillEvents throws; start() schedules
\* itself again and returns
ListenerStartFails ==
    /\ lpc \in {"off", "retryWait"}
    /\ contractsReady
    /\ tfaults < MaxTransportFaults
    /\ tfaults' = tfaults + 1
    /\ lastProcessedBlock' = LoadedBlock
    /\ syncState' = LoadedState
    /\ lpc' = "retryWait"
    /\ startReturned' = TRUE
    /\ UNCHANGED <<cvars, rvars, polls, chain, height, events, contractsReady, lastRealtimeBlock,
                   latestBlock, bFrom, bTo, bPhase, bRetries, haltedFrom,
                   pvars, dvars, lost, throws, restarts>>

\* backfillEvents: head of the for loop; past the end -> startRealtimePolling
BackfillNext ==
    /\ lpc = "backfill"
    /\ IF bFrom <= latestBlock
       THEN /\ bTo' = Min(bFrom + BATCH_SIZE - 1, latestBlock)
            /\ bRetries' = 0
            /\ bPhase' = 1
            /\ lpc' = "bfBatch"
            /\ UNCHANGED <<lastRealtimeBlock, startReturned>>
       ELSE /\ lastRealtimeBlock' = lastProcessedBlock
            /\ lpc' = "realtime"
            /\ startReturned' = TRUE
            /\ UNCHANGED <<bTo, bRetries, bPhase>>
    /\ UNCHANGED <<cvars, rvars, polls, chain, height, events, syncState, contractsReady,
                   lastProcessedBlock, latestBlock, bFrom, haltedFrom,
                   pvars, dvars, envvars>>

\* processBatch: one of the four queryFilter calls and its enqueueEvent
\* loop; a write that fails inside enqueueEvent is caught and logged there
BatchPhase ==
    /\ lpc \in {"bfBatch", "rtBatch"}
    /\ bPhase \in 1..4
    /\ Throwers(KindOrder[bPhase], bFrom, bTo) = {}
    /\ \E dropped \in SUBSET Enqueueable(KindOrder[bPhase], bFrom, bTo) :
          /\ Cardinality(dropped) <= MaxLost - lost
          /\ lost' = lost + Cardinality(dropped)
          /\ events' = EnqueueAll(events,
                 Enqueueable(KindOrder[bPhase], bFrom, bTo) \ dropped)
    /\ bPhase' = bPhase + 1
    /\ UNCHANGED <<cvars, rvars, polls, chain, height, syncState, contractsReady, lpc,
                   startReturned, lastProcessedBlock, lastRealtimeBlock,
                   latestBlock, bFrom, bTo, bRetries, haltedFrom, pvars,
                   dvars, tfaults, throws, restarts>>

\* saveState(blockNumber)
SavedBlock(blockNumber) ==
    IF blockNumber > lastProcessedBlock THEN blockNumber
    ELSE lastProcessedBlock

SavedState(blockNumber) ==
    IF blockNumber > lastProcessedBlock THEN blockNumber ELSE syncState

\* processBatch returned: saveState(to), then the next range or the end of
\* the poll tick
BatchSucceed ==
    /\ lpc \in {"bfBatch", "rtBatch"}
    /\ bPhase = 5
    /\ lastProcessedBlock' = SavedBlock(bTo)
    /\ syncState' = SavedState(bTo)
    /\ IF lpc = "bfBatch"
       THEN /\ bFrom' = bFrom + BATCH_SIZE
            /\ lpc' = "backfill"
            /\ UNCHANGED lastRealtimeBlock
       ELSE /\ lastRealtimeBlock' = bTo
            /\ lpc' = "realtime"
            /\ UNCHANGED bFrom
    /\ bPhase' = 0
    /\ UNCHANGED <<cvars, rvars, polls, chain, height, events, contractsReady, startReturned,
                   latestBlock, bTo, bRetries, haltedFrom, pvars, dvars,
                   envvars>>

\* the catch block of the retry loop also saving the checkpoint
BatchFailSaves ==
    /\ lpc \in {"bfBatch", "rtBatch"}
    /\ bPhase \in 1..4
    /\ tfaults < MaxTransportFaults
    /\ tfaults' = tfaults + 1
    /\ bRetries' = bRetries + 1
    /\ lastProcessedBlock' = SavedBlock(bTo)
    /\ syncState' = SavedState(bTo)
    /\ IF bRetries + 1 > MAX_RETRIES
       THEN /\ bPhase' = 0
            /\ lpc' = "realtime"
            /\ IF lpc = "bfBatch"
               THEN /\ haltedFrom' = bFrom
                    /\ lastRealtimeBlock' = lastProcessedBlock
                    /\ startReturned' = TRUE
               ELSE UNCHANGED <<haltedFrom, lastRealtimeBlock,
                                startReturned>>
       ELSE /\ bPhase' = 1
            /\ UNCHANGED <<lpc, haltedFrom, lastRealtimeBlock,
                           startReturned>>
    /\ UNCHANGED <<cvars, rvars, polls, chain, height, events, contractsReady, latestBlock,
                   bFrom, bTo, pvars, dvars, lost, throws, restarts>>

\* the poll tick giving a failed range up by moving past it
BatchFailSkips ==
    /\ lpc \in {"bfBatch", "rtBatch"}
    /\ bPhase \in 1..4
    /\ tfaults < MaxTransportFaults
    /\ tfaults' = tfaults + 1
    /\ bRetries' = bRetries + 1
    /\ IF bRetries + 1 > MAX_RETRIES
       THEN /\ bPhase' = 0
            /\ lpc' = "realtime"
            /\ IF lpc = "bfBatch"
               THEN /\ haltedFrom' = bFrom
                    /\ lastRealtimeBlock' = lastProcessedBlock
                    /\ startReturned' = TRUE
               ELSE /\ lastRealtimeBlock' = bTo
                    /\ UNCHANGED <<haltedFrom, startReturned>>
       ELSE /\ bPhase' = 1
            /\ UNCHANGED <<lpc, haltedFrom, lastRealtimeBlock,
                           startReturned>>
    /\ UNCHANGED <<cvars, rvars, polls, chain, height, events, syncState, contractsReady,
                   lastProcessedBlock, latestBlock, bFrom, bTo, pvars,
                   dvars, lost, throws, restarts>>

\* a queryFilter call throws: retry the range, or give up on it
BatchFail ==
    /\ lpc \in {"bfBatch", "rtBatch"}
    /\ bPhase \in 1..4
    /\ tfaults < MaxTransportFaults
    /\ tfaults' = tfaults + 1
    /\ bRetries' = bRetries + 1
    /\ IF bRetries + 1 > MAX_RETRIES
       THEN /\ bPhase' = 0
            /\ lpc' = "realtime"
            /\ IF lpc = "bfBatch"
               THEN /\ haltedFrom' = bFrom
                    /\ lastRealtimeBlock' = lastProcessedBlock
                    /\ startReturned' = TRUE
               ELSE UNCHANGED <<haltedFrom, lastRealtimeBlock,
                                startReturned>>
       ELSE /\ bPhase' = 1
            /\ UNCHANGED <<lpc, haltedFrom, lastRealtimeBlock,
                           startReturned>>
    /\ UNCHANGED <<cvars, rvars, polls, chain, height, events, syncState, contractsReady,
                   lastProcessedBlock, latestBlock, bFrom, bTo, pvars,
                   dvars, lost, throws, restarts>>

\* processBatch reads log.args of a log that has none: the TypeError leaves
\* processBatch and the catch block of the retry loop counts an attempt
BatchDecodeThrows ==
    /\ lpc \in {"bfBatch", "rtBatch"}
    /\ bPhase \in 1..4
    /\ Throwers(KindOrder[bPhase], bFrom, bTo) # {}
    /\ events' = EnqueueAll(events,
                     EnqueuedBeforeThrow(KindOrder[bPhase], bFrom, bTo))
    /\ bRetries' = bRetries + 1
    /\ IF bRetries + 1 > MAX_RETRIES
       THEN /\ bPhase' = 0
            /\ lpc' = "realtime"
            /\ IF lpc = "bfBatch"
               THEN /\ haltedFrom' = bFrom
                    /\ lastRealtimeBlock' = lastProcessedBlock
                    /\ startReturned' = TRUE
               ELSE UNCHANGED <<haltedFrom, lastRealtimeBlock,
                                startReturned>>
       ELSE /\ bPhase' = 1
            /\ UNCHANGED <<lpc, haltedFrom, lastRealtimeBlock,
                           startReturned>>
    /\ UNCHANGED <<cvars, rvars, polls, chain, height, syncState, contractsReady,
                   lastProcessedBlock, latestBlock, bFrom, bTo, pvars,
                   dvars, envvars>>

\* ChainListener.isRunning: set by start(), cleared by its catch block
ListenerIsRunning == lpc \notin {"off", "retryWait"}

\* the operations of ChainListener that clear isRunning: the class has no
\* stop method, the catch block of start() holds the only assignment
ListenerClearsIsRunning == ListenerStartFails

\* pollOnce: a timer tick that finds new blocks
PollTick ==
    /\ lpc = "realtime"
    /\ height > lastRealtimeBlock
    /\ bFrom' = lastRealtimeBlock + 1
    /\ bTo' = height
    /\ bRetries' = 0
    /\ bPhase' = 1
    /\ lpc' = "rtBatch"
    /\ UNCHANGED <<cvars, rvars, polls, chain, height, events, syncState, contractsReady,
                   startReturned, lastProcessedBlock, lastRealtimeBlock,
                   latestBlock, haltedFrom, pvars, dvars, envvars>>

\* ---------------------------------------------- overlapping poll ticks
\* setInterval calls pollOnce every REALTIME_POLL_INTERVAL_MS whether or
\* not the previous call has returned; each call keeps from, to and retries
\* in its own closure
Executions == {1, 2}

\* an execution of pollOnce that has returned (or was never started)
NoPoll == [pc |-> "idle", from |-> 0, to |-> 0, phase |-> 0, retries |-> 0]

NoPolls == [i \in Executions |-> NoPoll]

\* pollOnce: getBlockNumber found new blocks
OverlapPollTick ==
    /\ lpc = "realtime"
    /\ height > lastRealtimeBlock
    /\ \E i \in Executions :
          /\ polls[i].pc = "idle"
          /\ polls' = [polls EXCEPT ![i] =
                          [pc |-> "scan", from |-> lastRealtimeBlock + 1,
                           to |-> height, phase |-> 1, retries |-> 0]]
    /\ UNCHANGED <<cvars, rvars, chain, height, events, syncState,
                   contractsReady, lvars, pvars, dvars, envvars>>

\* processBatch(from, to) of one execution: one queryFilter call and its
\* enqueueEvent loop
OverlapBatchPhase ==
    /\ \E i \in Executions :
          /\ polls[i].pc = "scan"
          /\ polls[i].phase \in 1..4
          /\ events' = EnqueueAll(events,
                 Enqueueable(KindOrder[polls[i].phase],
                             polls[i].from, polls[i].to))
          /\ polls' = [polls EXCEPT ![i].phase = @ + 1]
    /\ UNCHANGED <<cvars, rvars, chain, height, syncState, contractsReady,
                   lvars, pvars, dvars, envvars>>

\* a queryFilter call of one execution throws: retry after the backoff
\* delay, or leave the range to the next tick
OverlapBatchFail ==
    /\ tfaults < MaxTransportFaults
    /\ tfaults' = tfaults + 1
    /\ \E i \in Executions :
          /\ polls[i].pc = "scan"
          /\ polls[i].phase \in 1..4
          /\ polls' = [polls EXCEPT ![i] =
                IF polls[i].retries + 1 > MAX_RETRIES THEN NoPoll
                ELSE [polls[i] EXCEPT !.phase = 1, !.retries = @ + 1]]
    /\ UNCHANGED <<cvars, rvars, chain, height, events, syncState,
                   contractsReady, lvars, pvars, dvars, lost, throws,
                   restarts>>

\* saveState(to) of one execution up to its await: the in-memory checkpoint
\* is compared and assigned and updateOne is sent; when the block is not
\* above the in-memory checkpoint nothing is sent and pollOnce assigns
\* lastRealtimeBlock and returns
OverlapSaveState ==
    /\ \E i \in Executions :
          /\ polls[i].pc = "scan"
          /\ polls[i].phase = 5
          /\ IF polls[i].to > lastProcessedBlock
             THEN /\ lastProcessedBlock' = polls[i].to
                  /\ polls' = [polls EXCEPT ![i].pc = "saving"]
                  /\ UNCHANGED lastRealtimeBlock
             ELSE /\ lastRealtimeBlock' = polls[i].to
                  /\ polls' = [polls EXCEPT ![i] = NoPoll]
                  /\ UNCHANGED lastProcessedBlock
    /\ UNCHANGED <<cvars, rvars, chain, height, events, syncState,
                   contractsReady, lpc, startReturned, latestBlock, bFrom,
                   bTo, bPhase, bRetries, haltedFrom, pvars, dvars, envvars>>

\* the store applies the updateOne of one execution and its await returns:
\* pollOnce assigns lastRealtimeBlock and returns. Two updateOne calls in
\* flight go out on two connections of the pool and are applied in either
\* order
OverlapStateSaved ==
    /\ \E i \in Executions :
          /\ polls[i].pc = "saving"
          /\ syncState' = polls[i].to
          /\ lastRealtimeBlock' = polls[i].to
          /\ polls' = [polls EXCEPT ![i] = NoPoll]
    /\ UNCHANGED <<cvars, rvars, chain, height, events, contractsReady, lpc,
                   startReturned, lastProcessedBlock, latestBlock, bFrom,
                   bTo, bPhase, bRetries, haltedFrom, pvars, dvars, envvars>>

\* the external ledger grows by one block
NewBlock ==
    /\ height < MaxHeight
    /\ height' = height + 1
    /\ UNCHANGED <<cvars, rvars, polls, chain, events, syncState, contractsReady, lvars, pvars,
                   dvars, envvars>>

\* ------------------------------------------------------ derived collections
NoListing == [doc |-> 0, id |-> NoVal, onChainListingId |-> NoVal,
              tokenAddress |-> "", tokenId |-> NoVal, sellerAddress |-> "",
              pricePerDay |-> NoVal, metadataHash |-> NoVal, status |-> "",
              txHash |-> "", blockNumber |-> NoVal]

\* the derived records and the next document id, as one value
Derived == [nfts |-> nfts, listings |-> listings, rentals |-> rentals,
            drafts |-> drafts, nextDoc |-> nextDoc]

NoDerived == [nfts |-> {}, listings |-> {}, rentals |-> {}, drafts |-> {},
              nextDoc |-> 1]

\* NFTModel.findOne({tokenAddress, tokenId})
FindNFT(ns, addr, tid) == {n \in ns : n.tokenAddress = addr /\ n.tokenId = tid}

\* safeUpdateNFT writing its fields with $setOnInsert instead of $set
SafeUpdateNFTInsertOnly(ns, e) ==
    IF FindNFT(ns, Lower(e.contractAddress), e.args.tokenId) # {} THEN ns
    ELSE ns \cup {[tokenAddress |-> Lower(e.contractAddress),
                   tokenId |-> e.args.tokenId, creator |-> Lower(e.args.who),
                   owner |-> Lower(e.args.who),
                   metadataHash |-> e.args.metadataHash,
                   mintTxHash |-> e.txHash, blockNumber |-> e.blockNumber,
                   renter |-> "", expiresAt |-> NoVal]}

\* safeUpdateNFT with the $set of handleNFTMinted (upsert)
SafeUpdateNFT(ns, e) ==
    LET addr == Lower(e.contractAddress)
        tid == e.args.tokenId
        c == Lower(e.args.who)
        match == FindNFT(ns, addr, tid)
    IN IF match = {}
       THEN ns \cup {[tokenAddress |-> addr, tokenId |-> tid, creator |-> c,
                      owner |-> c, metadataHash |-> e.args.metadataHash,
                      mintTxHash |-> e.txHash, blockNumber |-> e.blockNumber,
                      renter |-> "", expiresAt |-> NoVal]}
       ELSE LET n == CHOOSE x \in match : TRUE
            IN (ns \ {n}) \cup
               {[n EXCEPT !.creator = c, !.owner = c,
                          !.metadataHash = e.args.metadataHash,
                          !.mintTxHash = e.txHash,
                          !.blockNumber = e.blockNumber]}

\* DraftModel.updateOne({metadataHash, creator}, {$set: {status: 'MINTED'}})
DraftMinted(ds, e) ==
    {IF d.metadataHash = e.args.metadataHash /\ d.creator = Lower(e.args.who)
     THEN [d EXCEPT !.status = "MINTED"] ELSE d : d \in ds}

\* the snapshot check without the comparison of owner and seller
ListingRejectedNoOwner(ns, e) ==
    FindNFT(ns, Lower(e.args.tokenAddress), e.args.tokenId) = {}

\* handleListingCreated: the ownership snapshot check fails
ListingRejected(ns, e) ==
    \A n \in FindNFT(ns, Lower(e.args.tokenAddress), e.args.tokenId) :
        n.owner # Lower(e.args.who)

\* the document a filter on onChainListingId finds first
FindListing(ls, lid) ==
    LET match == {l \in ls : l.onChainListingId = lid}
    IN IF match = {} THEN NoListing
       ELSE CHOOSE l \in match : \A m \in match : l.doc <= m.doc

\* ListingModel.findOneAndUpdate({onChainListingId}, {$set: ...}, {upsert})
ListingUpsert(ls, e, newDoc) ==
    LET old == FindListing(ls, e.args.lid)
        base == IF old = NoListing
                THEN [NoListing EXCEPT !.doc = newDoc,
                                       !.onChainListingId = e.args.lid]
                ELSE old
    IN (ls \ {old}) \cup
       {[base EXCEPT !.sellerAddress = Lower(e.args.who),
                     !.tokenAddress = Lower(e.args.tokenAddress),
                     !.tokenId = e.args.tokenId,
                     !.pricePerDay = e.args.price,
                     !.metadataHash = e.args.metadataHash,
                     !.status = "ACTIVE",
                     !.txHash = e.txHash,
                     !.blockNumber = e.blockNumber]}

\* the Listing collection without the partial unique index on ACTIVE
IndexesHoldIdOnly(ls) ==
    \A l1, l2 \in ls : l1.doc # l2.doc => l1.id # l2.id

\* the unique indexes of the Listing collection: { id } (a missing id
\* is indexed as null) and { tokenAddress, tokenId, status } for ACTIVE
IndexesHold(ls) ==
    \A l1, l2 \in ls :
        l1.doc # l2.doc =>
            /\ l1.id # l2.id
            /\ ~ /\ l1.status = "ACTIVE"
                 /\ l2.status = "ACTIVE"
                 /\ l1.tokenAddress = l2.tokenAddress
                 /\ l1.tokenId = l2.tokenId

\* the status update of a listing with the upsert option
ListingSetStatusUpsert(ls, lid, st) ==
    LET old == FindListing(ls, lid)
    IN IF old = NoListing
       THEN ls \cup {[NoListing EXCEPT !.onChainListingId = lid,
                                       !.status = st]}
       ELSE (ls \ {old}) \cup {[old EXCEPT !.status = st]}

\* ListingModel.findOneAndUpdate / updateOne({onChainListingId}, {status})
ListingSetStatus(ls, lid, st) ==
    LET old == FindListing(ls, lid)
    IN IF old = NoListing THEN ls
       ELSE (ls \ {old}) \cup {[old EXCEPT !.status = st]}

\* handleRented selecting the listing only while it is ACTIVE
RentedFilterActive(ls, lid) ==
    IF FindListing(ls, lid).status = "ACTIVE" THEN FindListing(ls, lid)
    ELSE NoListing

\* the listing that the filter of handleRented selects
RentedFilter(ls, lid) == FindListing(ls, lid)

\* ListingModel.findOneAndUpdate({onChainListingId}, {status: 'RENTED'})
ListingRented(ls, lid) ==
    LET old == RentedFilter(ls, lid)
    IN IF old = NoListing THEN ls
       ELSE (ls \ {old}) \cup {[old EXCEPT !.status = "RENTED"]}

\* RentalModel.findOneAndUpdate({txHash}, {$set: ...}, {upsert})
RentalUpsert(rs, e, l) ==
    {r \in rs : r.txHash # e.txHash} \cup
    {[txHash |-> e.txHash, onChainListingId |-> e.args.lid,
      listingId |-> l.doc, tokenAddress |-> Lower(l.tokenAddress),
      tokenId |-> l.tokenId, renter |-> Lower(e.args.who),
      owner |-> Lower(l.sellerAddress), totalPrice |-> e.args.price,
      expiresAt |-> e.args.expires * 1000, status |-> "ACTIVE",
      startBlock |-> e.blockNumber]}

\* the NFT update storing the expiry in seconds instead of milliseconds
NFTSetRenterSeconds(ns, e, l) ==
    {IF n.tokenAddress = Lower(l.tokenAddress) /\ n.tokenId = l.tokenId
     THEN [n EXCEPT !.renter = Lower(e.args.who),
                    !.expiresAt = e.args.expires]
     ELSE n : n \in ns}

\* NFTModel.updateOne({tokenAddress, tokenId}, {$set: {renter, expiresAt}})
NFTSetRenter(ns, e, l) ==
    {IF n.tokenAddress = Lower(l.tokenAddress) /\ n.tokenId = l.tokenId
     THEN [n EXCEPT !.renter = Lower(e.args.who),
                    !.expiresAt = e.args.expires * 1000]
     ELSE n : n \in ns}

\* applyEvent when no storage operation fails: the derived records after
\* the handler of entry e ran to its end on the derived records d
ApplyEvent(d, e) ==
    CASE e.eventName = "NFTMinted" ->
           IF e.args.who = "" \/ e.contractAddress = "" THEN d
           ELSE [d EXCEPT !.nfts = SafeUpdateNFT(d.nfts, e),
                          !.drafts = DraftMinted(d.drafts, e)]
      [] e.eventName = "ListingCreated" ->
           IF \/ e.args.tokenAddress = ""
              \/ e.args.who = ""
              \/ ListingRejected(d.nfts, e)
           THEN d
           ELSE [d EXCEPT !.listings =
                               ListingUpsert(d.listings, e, d.nextDoc),
                          !.nextDoc =
                               IF FindListing(d.listings, e.args.lid)
                                      = NoListing
                               THEN d.nextDoc + 1 ELSE d.nextDoc]
      [] e.eventName = "Rented" ->
           IF RentedFilter(d.listings, e.args.lid) = NoListing THEN d
           ELSE LET l == [RentedFilter(d.listings, e.args.lid)
                             EXCEPT !.status = "RENTED"]
                IN [d EXCEPT !.listings = ListingRented(d.listings, e.args.lid),
                             !.rentals = RentalUpsert(d.rentals, e, l),
                             !.nfts = NFTSetRenter(d.nfts, e, l)]
      [] e.eventName = "ListingCancelled" ->
           [d EXCEPT !.listings =
                ListingSetStatus(d.listings, e.args.lid, "CANCELLED")]
      [] OTHER -> d

\* ------------------------------------------------------------- Projector
Pending == {e \in events : e.status = "pending"}

\* EventModel.findOne({status: 'pending'}).sort({blockNumber, logIndex})
NextPending ==
    CHOOSE e \in Pending : \A o \in Pending : ~Before(o, e)

\* event.save() after applyEvent returned
MarkProcessed(evs, e) ==
    {IF SameKey(x, e) THEN [x EXCEPT !.status = "processed"] ELSE x
     : x \in evs}

\* the catch block giving up one retry late (> instead of >=)
MarkFailedLate(evs, e) ==
    {IF SameKey(x, e)
     THEN [x EXCEPT !.retries = e.retries + 1,
                    !.status = IF e.retries + 1 > MAX_EVENT_RETRIES
                               THEN "failed" ELSE x.status]
     ELSE x : x \in evs}

\* a catch block that persists nothing for the entry (the abortTransaction
\* of the transactional variant)
MarkAborted(evs, e) == evs

\* event.save() in the catch block of processNextPending
MarkFailed(evs, e) ==
    {IF SameKey(x, e)
     THEN [x EXCEPT !.retries = e.retries + 1,
                    !.status = IF e.retries + 1 >= MAX_EVENT_RETRIES
                               THEN "failed" ELSE x.status]
     ELSE x : x \in evs}

\* Projector.start, called by startWorkers once chainListener.start returned
\* (a start() issued while a stopped loop still finishes its entry would run
\* a second loop beside it and is left out)
ProjStart ==
    /\ ppc = "off"
    /\ ~isRunning
    /\ startReturned
    /\ isRunning' = TRUE
    /\ ppc' = "idle"
    /\ UNCHANGED <<cvars, rvars, polls, chain, height, events, syncState, contractsReady, lvars,
                   cur, pstep, hlisting, pre, dvars, envvars>>

\* processNextPending: fetch the oldest pending entry
ProjFetch ==
    /\ ppc = "idle"
    /\ isRunning
    /\ Pending # {}
    /\ cur' = NextPending
    /\ pstep' = 1
    /\ ppc' = "apply"
    /\ pre' = IF NextPending.retries = 0 THEN Derived ELSE pre
    /\ UNCHANGED <<cvars, rvars, polls, isRunning, chain, height, events, syncState, contractsReady, lvars,
                   hlisting, dvars, envvars>>

\* NFTModel.updateOne(fallbackFilter, update) of safeUpdateNFT doing nothing
FallbackUpdateNFTNone(ns, e) == ns

\* safeUpdateNFT, catch block: NFTModel.updateOne(fallbackFilter, update),
\* the $set of handleNFTMinted on the records of (tokenAddress, tokenId),
\* without upsert
FallbackUpdateNFT(ns, e) ==
    {IF /\ n.tokenAddress = Lower(Lower(e.contractAddress))
        /\ n.tokenId = e.args.tokenId
     THEN [n EXCEPT !.creator = Lower(e.args.who),
                    !.owner = Lower(e.args.who),
                    !.metadataHash = e.args.metadataHash,
                    !.mintTxHash = e.txHash,
                    !.blockNumber = e.blockNumber]
     ELSE n : n \in ns}

\* safeUpdateNFT: the upsert finds no record of (tokenAddress, tokenId)
\* and goes on to insert one
ProjMintedFind ==
    /\ ppc = "apply"
    /\ cur.eventName = "NFTMinted"
    /\ cur.args.who # ""
    /\ cur.contractAddress # ""
    /\ pstep = 1
    /\ FindNFT(nfts, Lower(cur.contractAddress), cur.args.tokenId) = {}
    /\ pstep' = 3
    /\ UNCHANGED <<cvars, rvars, polls, isRunning, chain, height, events, syncState,
                   contractsReady, lvars, ppc, cur, hlisting, pre, dvars,
                   envvars>>

\* safeUpdateNFT: the insert of the upsert; when a record of the key was
\* inserted meanwhile the unique index raises E11000 and the catch block
\* updates by the fallback filter
ProjMintedInsert ==
    /\ ppc = "apply"
    /\ cur.eventName = "NFTMinted"
    /\ pstep = 3
    /\ IF FindNFT(nfts, Lower(cur.contractAddress), cur.args.tokenId) = {}
       THEN /\ nfts' = SafeUpdateNFT(nfts, cur)
            /\ pstep' = 2
       ELSE /\ nfts' = FallbackUpdateNFT(nfts, cur)
            /\ pstep' = 4
    /\ UNCHANGED <<cvars, rvars, polls, isRunning, chain, height, events, syncState,
                   contractsReady, lvars, ppc, cur, hlisting, pre, listings,
                   rentals, drafts, nextDoc, envvars>>

\* handleNFTMinted: the NFT upsert, then the draft update
ProjMinted ==
    /\ ppc = "apply"
    /\ cur.eventName = "NFTMinted"
    /\ pstep # 3
    /\ IF cur.args.who = "" \/ cur.contractAddress = ""
       THEN /\ ppc' = "commit"
            /\ UNCHANGED <<nfts, drafts, pstep>>
       ELSE IF pstep = 1
       THEN /\ nfts' = SafeUpdateNFT(nfts, cur)
            /\ pstep' = 2
            /\ UNCHANGED <<ppc, drafts>>
       ELSE /\ drafts' = DraftMinted(drafts, cur)
            /\ ppc' = "commit"
            /\ UNCHANGED <<nfts, pstep>>
    /\ UNCHANGED <<cvars, rvars, polls, isRunning, chain, height, events, syncState, contractsReady, lvars,
                   cur, hlisting, pre, listings, rentals, nextDoc, envvars>>

\* handleListingCreated: ownership snapshot check, then the listing upsert
ProjListingCreated ==
    /\ ppc = "apply"
    /\ cur.eventName = "ListingCreated"
    /\ \/ cur.args.tokenAddress = ""
       \/ cur.args.who = ""
       \/ ListingRejected(nfts, cur)
       \/ IndexesHold(ListingUpsert(listings, cur, nextDoc))
    /\ IF \/ cur.args.tokenAddress = ""
          \/ cur.args.who = ""
          \/ ListingRejected(nfts, cur)
       THEN UNCHANGED <<listings, nextDoc>>
       ELSE /\ listings' = ListingUpsert(listings, cur, nextDoc)
            /\ nextDoc' = IF FindListing(listings, cur.args.lid) = NoListing
                          THEN nextDoc + 1 ELSE nextDoc
    /\ ppc' = "commit"
    /\ UNCHANGED <<cvars, rvars, polls, isRunning, chain, height, events, syncState, contractsReady, lvars,
                   cur, pstep, hlisting, pre, nfts, rentals, drafts,
                   envvars>>

\* handleRented: listing -> RENTED, rental upsert, NFT renter update
ProjRented ==
    /\ ppc = "apply"
    /\ cur.eventName = "Rented"
    /\ IF pstep = 1
       THEN /\ listings' = ListingRented(listings, cur.args.lid)
            /\ hlisting' =
                 IF RentedFilter(listings, cur.args.lid) = NoListing
                 THEN NoListing
                 ELSE [RentedFilter(listings, cur.args.lid)
                          EXCEPT !.status = "RENTED"]
            /\ IF RentedFilter(listings, cur.args.lid) = NoListing
               THEN ppc' = "commit" /\ UNCHANGED pstep
               ELSE pstep' = 2 /\ UNCHANGED ppc
            /\ UNCHANGED <<rentals, nfts>>
       ELSE IF pstep = 2
       THEN /\ rentals' = RentalUpsert(rentals, cur, hlisting)
            /\ pstep' = 3
            /\ UNCHANGED <<ppc, hlisting, listings, nfts>>
       ELSE /\ nfts' = NFTSetRenter(nfts, cur, hlisting)
            /\ ppc' = "commit"
            /\ UNCHANGED <<pstep, hlisting, listings, rentals>>
    /\ UNCHANGED <<cvars, rvars, polls, isRunning, chain, height, events, syncState, contractsReady, lvars,
                   cur, pre, drafts, nextDoc, envvars>>

\* handleListingCancelled
ProjCancelled ==
    /\ ppc = "apply"
    /\ cur.eventName = "ListingCancelled"
    /\ listings' = ListingSetStatus(listings, cur.args.lid, "CANCELLED")
    /\ ppc' = "commit"
    /\ UNCHANGED <<cvars, rvars, polls, isRunning, chain, height, events, syncState, contractsReady, lvars,
                   cur, pstep, hlisting, pre, nfts, rentals, drafts, nextDoc,
                   envvars>>

\* the listing upsert of handleListingCreated raises E11000
DuplicateKey ==
    /\ cur.eventName = "ListingCreated"
    /\ cur.args.tokenAddress # ""
    /\ cur.args.who # ""
    /\ ~ListingRejected(nfts, cur)
    /\ ~IndexesHold(ListingUpsert(listings, cur, nextDoc))

\* a storage operation of the handler fails and the handler throws:
\* catch block of processNextPending
ProjThrow ==
    /\ ppc = "apply"
    /\ throws < MaxThrows
    /\ throws' = throws + 1
    /\ events' = MarkFailed(events, cur)
    /\ ppc' = "idle"
    /\ UNCHANGED <<cvars, rvars, polls, isRunning, chain, height, syncState, contractsReady, lvars, cur,
                   pstep, hlisting, pre, dvars, tfaults, lost, restarts>>

\* the listing upsert violates a unique index and the handler throws:
\* catch block of processNextPending
ProjDuplicateKey ==
    /\ ppc = "apply"
    /\ DuplicateKey
    /\ events' = MarkFailed(events, cur)
    /\ ppc' = "idle"
    /\ UNCHANGED <<cvars, rvars, polls, isRunning, chain, height, syncState, contractsReady, lvars, cur,
                   pstep, hlisting, pre, dvars, envvars>>

\* applyEvent returned: status processed
ProjCommit ==
    /\ ppc = "commit"
    /\ events' = MarkProcessed(events, cur)
    /\ ppc' = "idle"
    /\ UNCHANGED <<cvars, rvars, polls, isRunning, chain, height, syncState, contractsReady, lvars, cur,
                   pstep, hlisting, pre, dvars, envvars>>

\* Projector.stop()
ProjStop ==
    /\ isRunning
    /\ isRunning' = FALSE
    /\ UNCHANGED <<cvars, rvars, polls, chain, height, events, syncState, contractsReady,
                   lvars, ppc, cur, pstep, hlisting, pre, dvars, envvars>>

\* processLoop: the while condition is false and the loop ends
ProjExit ==
    /\ ppc = "idle"
    /\ ~isRunning
    /\ ppc' = "off"
    /\ UNCHANGED <<cvars, rvars, polls, chain, height, events, syncState, contractsReady,
                   lvars, isRunning, cur, pstep, hlisting, pre, dvars,
                   envvars>>

\* ------------------------------------------------------------ Listing API
DraftPrice == 3         \* price of the request body of createListingDraft

LidInputs == {7, 8}     \* onChainListingId values of notifyCancelTx requests

\* createListingDraft (request with tokenAddress and tokenId)
CreateListingDraft ==
    /\ nextDoc <= MaxDocs
    /\ \E user \in Users, n \in nfts :
          /\ n.owner = user
          /\ ~ \E l \in listings :
                 /\ l.tokenAddress = n.tokenAddress
                 /\ l.tokenId = n.tokenId
                 /\ l.status \in {"LOCAL_DRAFT", "PENDING_CREATE", "ACTIVE"}
          /\ listings' = listings \cup
                 {[NoListing EXCEPT !.doc = nextDoc, !.id = nextDoc,
                                    !.tokenAddress = n.tokenAddress,
                                    !.tokenId = n.tokenId,
                                    !.sellerAddress = user,
                                    !.pricePerDay = DraftPrice,
                                    !.metadataHash = n.metadataHash,
                                    !.status = "LOCAL_DRAFT"]}
    /\ nextDoc' = nextDoc + 1
    /\ UNCHANGED <<cvars, rvars, polls, chain, height, events, syncState, contractsReady, lvars,
                   pvars, nfts, rentals, drafts, envvars>>

\* the listings after notifyListingTx set a draft ACTIVE
NotifiedListings(l) ==
    (listings \ {l}) \cup {[l EXCEPT !.status = "ACTIVE", !.txHash = "u"]}

\* notifyListingTx; a save that violates a unique index answers 500
NotifyListingTx ==
    /\ \E user \in Users, l \in listings :
          /\ l.id # NoVal
          /\ l.sellerAddress = user
          /\ IndexesHold(NotifiedListings(l))
          /\ listings' = NotifiedListings(l)
    /\ UNCHANGED <<cvars, rvars, polls, chain, height, events, syncState, contractsReady, lvars,
                   pvars, nfts, rentals, drafts, nextDoc, envvars>>

\* notifyCancelTx
NotifyCancelTx ==
    /\ \E lid \in LidInputs :
          /\ FindListing(listings, lid) # NoListing
          /\ listings' =
               (listings \ {FindListing(listings, lid)}) \cup
               {[FindListing(listings, lid)
                    EXCEPT !.status = "PENDING_CANCEL", !.txHash = "u"]}
    /\ UNCHANGED <<cvars, rvars, polls, chain, height, events, syncState, contractsReady, lvars,
                   pvars, nfts, rentals, drafts, nextDoc, envvars>>

\* deleteDraftListing
DeleteDraftListing ==
    /\ \E user \in Users, l \in listings :
          /\ l.id # NoVal
          /\ l.sellerAddress = user
          /\ l.status = "LOCAL_DRAFT"
          /\ listings' = listings \ {l}
    /\ UNCHANGED <<cvars, rvars, polls, chain, height, events, syncState, contractsReady, lvars,
                   pvars, nfts, rentals, drafts, nextDoc, envvars>>

\* ---------------------------------------------------------------- NFT API
TokenInputs == {1, 2}   \* tokenId values of confirmMint requests

\* confirmMint: the NFT record is created from the draft and the request
\* body when no record of {tokenAddress, tokenId} exists ($setOnInsert)
ConfirmMint ==
    /\ \E d \in drafts, tid \in TokenInputs :
          /\ d.status # "MINTED"
          /\ NFT_ADDRESS # ""
          /\ nfts' =
               IF FindNFT(nfts, Lower(NFT_ADDRESS), tid) # {} THEN nfts
               ELSE nfts \cup
                    {[tokenAddress |-> Lower(NFT_ADDRESS), tokenId |-> tid,
                      creator |-> d.creator, owner |-> d.creator,
                      metadataHash |-> d.metadataHash, mintTxHash |-> "u",
                      blockNumber |-> 0, renter |-> "",
                      expiresAt |-> NoVal]}
          /\ drafts' = (drafts \ {d}) \cup {[d EXCEPT !.status = "MINTED"]}
    /\ UNCHANGED <<cvars, rvars, polls, chain, height, events, syncState, contractsReady,
                   lvars, pvars, listings, rentals, nextDoc, envvars>>

\* updateNFT: findOneAndUpdate(query, {$set: req.body}) with a request body
\* that names owner, or renter and expiresAt
UpdateNFT ==
    /\ \E n \in nfts, user \in Users, owns \in BOOLEAN :
          nfts' = (nfts \ {n}) \cup
                  {IF owns THEN [n EXCEPT !.owner = user]
                   ELSE [n EXCEPT !.renter = user, !.expiresAt = 1000]}
    /\ UNCHANGED <<cvars, rvars, polls, chain, height, events, syncState, contractsReady,
                   lvars, pvars, listings, rentals, drafts, nextDoc,
                   envvars>>

NftApi ==
    \/ ConfirmMint
    \/ UpdateNFT

\* ------------------------------------------------------------- Rental API
\* notifyRentalTx (request with a fresh Idempotency-Key, txHash "r"):
\* RentalModel.findOneAndUpdate({txHash}, {$setOnInsert: ...}, {upsert})
NotifyRentalTx ==
    /\ \E user \in Users, lid \in LidInputs :
          LET l == FindListing(listings, lid)
          IN rentals' =
               IF \E r \in rentals : r.txHash = "r" THEN rentals
               ELSE rentals \cup
                    {[txHash |-> "r", onChainListingId |-> lid,
                      listingId |-> l.doc,
                      tokenAddress |-> Lower(l.tokenAddress),
                      tokenId |-> l.tokenId, renter |-> user,
                      owner |-> Lower(l.sellerAddress),
                      totalPrice |-> l.pricePerDay, expiresAt |-> NoVal,
                      status |-> "PENDING", startBlock |-> NoVal]}
    /\ rentals' # rentals
    /\ UNCHANGED <<cvars, rvars, polls, chain, height, events, syncState, contractsReady,
                   lvars, pvars, nfts, listings, drafts, nextDoc, envvars>>

\* ------------------------------------------------------------ Rebuild tool
\* the start block the tool computes
RebuildStart == Max(0, height - REBUILD_WINDOW)

\* the tool resetting only the failed entries
RebuildEventsFailedOnly(evs) ==
    {IF e.status = "failed" THEN [e EXCEPT !.status = "pending", !.retries = 0]
     ELSE e : e \in evs}

\* the tool resetting only the processed entries
RebuildEventsProcessedOnly(evs) ==
    {IF e.status = "processed"
     THEN [e EXCEPT !.status = "pending", !.retries = 0]
     ELSE e : e \in evs}

\* the tool clearing the ledger as well
RebuildEventsDelete(evs) == {}

\* EventModel.updateMany({}, {$set: {status: 'pending', retries: 0}})
RebuildEvents(evs) ==
    {[e EXCEPT !.status = "pending", !.retries = 0] : e \in evs}

\* NFTModel.deleteMany({tokenAddress: {$exists: true}})
RebuildNFTs(ns) == {n \in ns : n.tokenAddress = ""}

\* ListingModel.deleteMany({status: {$in: ['ACTIVE','RENTED','CANCELLED']}})
RebuildListings(ls) ==
    {l \in ls : l.status \notin {"ACTIVE", "RENTED", "CANCELLED"}}

\* the tool deleting only the rentals that are not PENDING
RebuildRentalsConfirmed(rs) == {r \in rs : r.status = "PENDING"}

\* RentalModel.deleteMany({})
RebuildRentals(rs) == {}

\* main of the rebuild tool, run by the operator while the Projector applies
\* no entry; the backend's memory is not touched
Rebuild ==
    /\ rebuilds < MaxRebuilds
    /\ ppc \in {"off", "idle"}
    /\ rebuilds' = rebuilds + 1
    /\ snap' = Derived
    /\ snapDone' = (events # {} /\ Pending = {})
    /\ syncState' = RebuildStart
    /\ events' = RebuildEvents(events)
    /\ nfts' = RebuildNFTs(nfts)
    /\ listings' = RebuildListings(listings)
    /\ rentals' = RebuildRentals(rentals)
    /\ UNCHANGED <<cvars, polls, chain, height, contractsReady, lvars, pvars, drafts,
                   nextDoc, envvars, rebuildStep>>

\* the rebuild tool started beside a running backend: 1. SyncState reset
RebuildSyncState ==
    /\ rebuilds < MaxRebuilds
    /\ rebuildStep = 0
    /\ rebuildStep' = 1
    /\ snap' = Derived
    /\ snapDone' = (events # {} /\ Pending = {} /\ ppc \in {"off", "idle"})
    /\ syncState' = RebuildStart
    /\ UNCHANGED <<cvars, polls, chain, height, events, contractsReady, lvars, pvars,
                   dvars, envvars, rebuilds>>

\* 2. EventModel.updateMany: every entry pending
RebuildMarkPending ==
    /\ rebuildStep = 1
    /\ rebuildStep' = 2
    /\ events' = RebuildEvents(events)
    /\ UNCHANGED <<cvars, polls, chain, height, syncState, contractsReady, lvars,
                   pvars, dvars, envvars, rebuilds, snap, snapDone>>

\* 3. the three deleteMany calls, one after the other; process.exit
RebuildClear ==
    /\ rebuildStep \in 2..4
    /\ nfts' = IF rebuildStep = 2 THEN RebuildNFTs(nfts) ELSE nfts
    /\ listings' = IF rebuildStep = 3 THEN RebuildListings(listings)
                   ELSE listings
    /\ rentals' = IF rebuildStep = 4 THEN RebuildRentals(rentals)
                  ELSE rentals
    /\ rebuildStep' = IF rebuildStep = 4 THEN 0 ELSE rebuildStep + 1
    /\ rebuilds' = IF rebuildStep = 4 THEN rebuilds + 1 ELSE rebuilds
    /\ UNCHANGED <<cvars, polls, chain, height, events, syncState, contractsReady,
                   lvars, pvars, drafts, nextDoc, envvars, snap, snapDone>>

\* ---------------------------------------------------- marketplace contract
Accounts == {"A", "B"}  \* externally owned accounts that list and rent

MarketOwner == "O"      \* deployer of the marketplace: Ownable.owner()

TokenIds == 1..MaxToken

ListingIds == 1..MaxListingId

\* the value of listings[id] for an id never written
NoMarketListing == [seller |-> "", tokenId |-> NoVal, pricePerDay |-> 0,
                    minDuration |-> 0, maxDuration |-> 0, isActive |-> FALSE]

NoLog == [kind |-> "", lid |-> NoVal, who |-> "", tokenId |-> NoVal,
          expires |-> 0, totalPrice |-> 0]

NoTx == [fn |-> "", sender |-> "", lid |-> NoVal, daysToRent |-> 0,
         value |-> 0]

\* a transaction that transfers no value
NoPaid == [sellerAmount |-> 0, platformFee |-> 0, refund |-> 0]

\* the denominator of platformFeeBasisPoints
BASIS_POINTS == 10000

\* the value platformFeeBasisPoints is declared with
INITIAL_FEE == 250

\* arguments of setPlatformFee
FeeInputs == {0, 5000, BASIS_POINTS, BASIS_POINTS + 1}

\* the state right after both contracts were deployed
InitContracts ==
    /\ marketListings = [i \in ListingIds |-> NoMarketListing]
    /\ nextListingId = 1
    /\ paused = FALSE
    /\ tokenOwner = [t \in TokenIds |-> ""]
    /\ approvedAll = {}
    /\ tokenApproved = [t \in TokenIds |-> FALSE]
    /\ tokenUser = [t \in TokenIds |-> ""]
    /\ userExpires = [t \in TokenIds |-> 0]
    /\ now = 1
    /\ emitted = NoLog
    /\ lastTx = NoTx
    /\ txCount = 0
    /\ platformFeeBasisPoints = INITIAL_FEE
    /\ marketBalance = 0
    /\ paid = NoPaid

offchain == <<chain, height, events, syncState, contractsReady, lvars, pvars,
              dvars, envvars, rvars, polls>>

\* isApprovedForAll(owner, marketplace) || getApproved(tokenId) == marketplace
MarketApproved(owner, t) == owner \in approvedAll \/ tokenApproved[t]

\* asset contract: mint(to, uri, metadataHash); token ids count from 1
TokenMint ==
    /\ txCount < MaxTx
    /\ \E t \in TokenIds, to \in Accounts :
          /\ tokenOwner[t] = ""
          /\ \A o \in TokenIds : o < t => tokenOwner[o] # ""
          /\ tokenOwner' = [tokenOwner EXCEPT ![t] = to]
          /\ lastTx' = [NoTx EXCEPT !.fn = "mint", !.sender = to]
    /\ emitted' = NoLog
    /\ txCount' = txCount + 1
    /\ paid' = NoPaid
    /\ UNCHANGED <<offchain, platformFeeBasisPoints, marketBalance,
                   marketListings, nextListingId, paused,
                   approvedAll, tokenApproved, tokenUser, userExpires, now>>

\* asset contract: setApprovalForAll(marketplace, approved)
TokenSetApprovalForAll ==
    /\ txCount < MaxTx
    /\ \E a \in Accounts, approved \in BOOLEAN :
          /\ (a \in approvedAll) # approved
          /\ approvedAll' = IF approved THEN approvedAll \cup {a}
                            ELSE approvedAll \ {a}
          /\ lastTx' = [NoTx EXCEPT !.fn = "setApprovalForAll", !.sender = a]
    /\ emitted' = NoLog
    /\ txCount' = txCount + 1
    /\ paid' = NoPaid
    /\ UNCHANGED <<offchain, platformFeeBasisPoints, marketBalance,
                   marketListings, nextListingId, paused,
                   tokenOwner, tokenApproved, tokenUser, userExpires, now>>

\* asset contract: approve(marketplace, tokenId) by the owner
TokenApprove ==
    /\ txCount < MaxTx
    /\ \E t \in TokenIds :
          /\ tokenOwner[t] # ""
          /\ ~tokenApproved[t]
          /\ tokenApproved' = [tokenApproved EXCEPT ![t] = TRUE]
          /\ lastTx' = [NoTx EXCEPT !.fn = "approve",
                                    !.sender = tokenOwner[t]]
    /\ emitted' = NoLog
    /\ txCount' = txCount + 1
    /\ paid' = NoPaid
    /\ UNCHANGED <<offchain, platformFeeBasisPoints, marketBalance,
                   marketListings, nextListingId, paused,
                   tokenOwner, approvedAll, tokenUser, userExpires, now>>

\* asset contract: transferFrom by the owner; the approval of the token is
\* cleared, and the user of the token is kept or cleared
TokenTransfer ==
    /\ txCount < MaxTx
    /\ \E t \in TokenIds, to \in Accounts, clears \in BOOLEAN :
          /\ tokenOwner[t] \notin {"", to}
          /\ tokenOwner' = [tokenOwner EXCEPT ![t] = to]
          /\ tokenApproved' = [tokenApproved EXCEPT ![t] = FALSE]
          /\ tokenUser' = IF clears THEN [tokenUser EXCEPT ![t] = ""] ELSE tokenUser
          /\ userExpires' = IF clears THEN [userExpires EXCEPT ![t] = 0]
                            ELSE userExpires
          /\ lastTx' = [NoTx EXCEPT !.fn = "transferFrom",
                                    !.sender = tokenOwner[t]]
    /\ emitted' = NoLog
    /\ txCount' = txCount + 1
    /\ paid' = NoPaid
    /\ UNCHANGED <<offchain, platformFeeBasisPoints, marketBalance,
                   marketListings, nextListingId, paused,
                   approvedAll, now>>

\* a later block: block.timestamp grows
Tick ==
    /\ now < MaxTime
    /\ now' = now + 1
    /\ UNCHANGED <<offchain, fvars, marketListings, nextListingId, paused,
                   tokenOwner, approvedAll, tokenApproved, tokenUser, userExpires,
                   emitted, lastTx, txCount>>

\* pause() / unpause() by the owner of the marketplace
Pause ==
    /\ txCount < MaxTx
    /\ paused' = ~paused
    /\ lastTx' = [NoTx EXCEPT !.fn = IF paused THEN "unpause" ELSE "pause",
                              !.sender = MarketOwner]
    /\ emitted' = NoLog
    /\ txCount' = txCount + 1
    /\ paid' = NoPaid
    /\ UNCHANGED <<offchain, platformFeeBasisPoints, marketBalance,
                   marketListings, nextListingId, tokenOwner,
                   approvedAll, tokenApproved, tokenUser, userExpires, now>>

\* listNFT(tokenAddress, tokenId, pricePerDay, minDuration, maxDuration,
\* metadataHash)
ListNFT ==
    /\ txCount < MaxTx
    /\ ~paused
    /\ nextListingId <= MaxListingId
    /\ \E sender \in Accounts, t \in TokenIds, pricePerDay \in 0..1,
          minDuration \in {1, 2}, maxDuration \in {1, MaxDays} :
          /\ pricePerDay > 0
          /\ maxDuration >= minDuration
          /\ tokenOwner[t] = sender
          /\ MarketApproved(sender, t)
          /\ marketListings' =
                [marketListings EXCEPT ![nextListingId] =
                    [seller |-> sender, tokenId |-> t,
                     pricePerDay |-> pricePerDay,
                     minDuration |-> minDuration,
                     maxDuration |-> maxDuration, isActive |-> TRUE]]
          /\ emitted' = [NoLog EXCEPT !.kind = "ListingCreated",
                                      !.lid = nextListingId, !.who = sender,
                                      !.tokenId = t,
                                      !.totalPrice = pricePerDay]
          /\ lastTx' = [NoTx EXCEPT !.fn = "listNFT", !.sender = sender]
    /\ nextListingId' = nextListingId + 1
    /\ txCount' = txCount + 1
    /\ paid' = NoPaid
    /\ UNCHANGED <<offchain, platformFeeBasisPoints, marketBalance,
                   paused, tokenOwner, approvedAll, tokenApproved,
                   tokenUser, userExpires, now>>

\* cancelListing(listingId)
CancelListing ==
    /\ txCount < MaxTx
    /\ \E sender \in Accounts \cup {MarketOwner}, listingId \in ListingIds :
          /\ marketListings[listingId].isActive
          /\ marketListings[listingId].seller = sender \/ sender = MarketOwner
          /\ marketListings' =
                [marketListings EXCEPT ![listingId].isActive = FALSE]
          /\ emitted' = [NoLog EXCEPT
                            !.kind = "ListingCancelled", !.lid = listingId,
                            !.tokenId = marketListings[listingId].tokenId]
          /\ lastTx' = [NoTx EXCEPT !.fn = "cancelListing",
                                    !.sender = sender, !.lid = listingId]
    /\ txCount' = txCount + 1
    /\ paid' = NoPaid
    /\ UNCHANGED <<offchain, platformFeeBasisPoints, marketBalance,
                   nextListingId, paused, tokenOwner, approvedAll,
                   tokenApproved, tokenUser, userExpires, now>>

\* uint64 expires = uint64(block.timestamp + (daysToRent * 1 days)): the
\* product is checked uint64 arithmetic, the sum is uint256 and the
\* conversion to uint64 drops the high bits
RentExpires(daysToRent) == (now + daysToRent * DAY) % UINT64

\* the require statements of rent without the test of userExpires
RentAcceptedWhileRented(listingId, daysToRent, value) ==
    LET listing == marketListings[listingId]
    IN /\ ~paused
       /\ listing.isActive
       /\ daysToRent >= listing.minDuration
       /\ daysToRent <= listing.maxDuration
       /\ tokenOwner[listing.tokenId] = listing.seller
       /\ MarketApproved(listing.seller, listing.tokenId)
       /\ value >= listing.pricePerDay * daysToRent
       /\ daysToRent * DAY < UINT64

\* the require statements of rent, and the checked product daysToRent * 1 days
RentAccepted(listingId, daysToRent, value) ==
    LET listing == marketListings[listingId]
    IN /\ ~paused
       /\ listing.isActive
       /\ daysToRent >= listing.minDuration
       /\ daysToRent <= listing.maxDuration
       /\ tokenOwner[listing.tokenId] = listing.seller
       /\ MarketApproved(listing.seller, listing.tokenId)
       /\ userExpires[listing.tokenId] < now
       /\ value >= listing.pricePerDay * daysToRent
       /\ daysToRent * DAY < UINT64

\* the payouts of rent that leave out the refund of an overpayment
RentPayoutNoRefund(totalPrice, value) ==
    LET platformFee == (totalPrice * platformFeeBasisPoints) \div BASIS_POINTS
    IN [sellerAmount |-> totalPrice - platformFee,
        platformFee |-> platformFee,
        refund |-> 0]

\* the payouts of rent: the seller's share, the fee sent to the treasury when
\* it is positive, the refund sent to the caller when msg.value exceeds the
\* price
RentPayout(totalPrice, value) ==
    LET platformFee == (totalPrice * platformFeeBasisPoints) \div BASIS_POINTS
    IN [sellerAmount |-> totalPrice - platformFee,
        platformFee |-> IF platformFee > 0 THEN platformFee ELSE 0,
        refund |-> IF value > totalPrice THEN value - totalPrice ELSE 0]

\* setPlatformFee(newFeeBasisPoints) by the owner of the marketplace
SetPlatformFee ==
    /\ txCount < MaxTx
    /\ \E newFeeBasisPoints \in FeeInputs :
          /\ newFeeBasisPoints <= BASIS_POINTS
          /\ platformFeeBasisPoints' = newFeeBasisPoints
    /\ lastTx' = [NoTx EXCEPT !.fn = "setPlatformFee", !.sender = MarketOwner]
    /\ emitted' = [NoLog EXCEPT !.kind = "FeeUpdated"]
    /\ paid' = NoPaid
    /\ txCount' = txCount + 1
    /\ UNCHANGED <<offchain, marketListings, nextListingId, paused,
                   tokenOwner, approvedAll, tokenApproved, tokenUser,
                   userExpires, now, marketBalance>>

\* rent(listingId, daysToRent) payable: setUser on the asset contract, the
\* payouts, the Rented event; msg.value is credited to the contract before
\* the body runs
Rent ==
    /\ txCount < MaxTx
    /\ \E sender \in Accounts, listingId \in ListingIds,
          daysToRent \in 0..MaxDays, value \in 0..MaxValue :
          /\ RentAccepted(listingId, daysToRent, value)
          /\ tokenUser' = [tokenUser EXCEPT
                         ![marketListings[listingId].tokenId] = sender]
          /\ userExpires' = [userExpires EXCEPT
                                ![marketListings[listingId].tokenId] =
                                    RentExpires(daysToRent)]
          /\ emitted' =
                [kind |-> "Rented", lid |-> listingId, who |-> sender,
                 tokenId |-> marketListings[listingId].tokenId,
                 expires |-> RentExpires(daysToRent),
                 totalPrice |->
                     marketListings[listingId].pricePerDay * daysToRent]
          /\ lastTx' = [fn |-> "rent", sender |-> sender, lid |-> listingId,
                        daysToRent |-> daysToRent, value |-> value]
          /\ LET totalPrice ==
                     marketListings[listingId].pricePerDay * daysToRent
                 payout == RentPayout(totalPrice, value)
             IN /\ payout.sellerAmount >= 0
                /\ marketBalance + value >=
                      payout.sellerAmount + payout.platformFee + payout.refund
                /\ paid' = payout
                /\ marketBalance' =
                      marketBalance + value - payout.sellerAmount
                          - payout.platformFee - payout.refund
    /\ txCount' = txCount + 1
    /\ UNCHANGED <<offchain, marketListings, nextListingId, paused,
                   tokenOwner, approvedAll, tokenApproved, now,
                   platformFeeBasisPoints>>

\* ------------------------------------------------------------- process
\* the backend process dies and is started again: collections and the
\* SyncState document survive, everything in memory is lost
ProcessRestart ==
    /\ restarts < MaxRestarts
    /\ restarts' = restarts + 1
    /\ lpc' = "off"
    /\ startReturned' = FALSE
    /\ lastProcessedBlock' = 0
    /\ lastRealtimeBlock' = 0
    /\ latestBlock' = 0
    /\ bFrom' = 0
    /\ bTo' = 0
    /\ bPhase' = 0
    /\ bRetries' = 0
    /\ ppc' = "off"
    /\ isRunning' = FALSE
    /\ cur' = NoEvent
    /\ pstep' = 0
    /\ hlisting' = NoListing
    /\ UNCHANGED <<cvars, rvars, polls, chain, height, events, syncState, contractsReady,
                   haltedFrom, pre, dvars, tfaults, lost, throws>>

\* ------------------------------------------------------------ specification
InitDrafts ==
    {[metadataHash |-> MetadataHashOf(1), creator |-> "a",
      status |-> "PREPARED"]}

InitMemory ==
    /\ lpc = "off"
    /\ startReturned = FALSE
    /\ lastProcessedBlock = 0
    /\ lastRealtimeBlock = 0
    /\ latestBlock = 0
    /\ bFrom = 0
    /\ bTo = 0
    /\ bPhase = 0
    /\ bRetries = 0
    /\ haltedFrom = NoState
    /\ ppc = "off"
    /\ isRunning = FALSE
    /\ cur = NoEvent
    /\ pstep = 0
    /\ hlisting = NoListing
    /\ pre = NoDerived
    /\ tfaults = 0
    /\ lost = 0
    /\ throws = 0
    /\ restarts = 0
    /\ rebuilds = 0
    /\ snap = NoDerived
    /\ snapDone = FALSE
    /\ rebuildStep = 0
    /\ polls = NoPolls
    /\ InitContracts

Init ==
    /\ chain \in Scenarios
    /\ height = 1
    /\ contractsReady \in BOOLEAN
    /\ events = {}
    /\ syncState = NoState
    /\ nfts = {}
    /\ listings = {}
    /\ rentals = {}
    /\ drafts = InitDrafts
    /\ nextDoc = 1
    /\ InitMemory

\* the listener when no request to the ledger's RPC endpoint fails
ListenerSteps ==
    \/ ListenerStartDegraded
    \/ ListenerStart
    \/ BackfillNext
    \/ BatchPhase
    \/ BatchSucceed
    \/ PollTick

Listener ==
    \/ ListenerSteps
    \/ ListenerStartFails
    \/ BatchFail

\* the projector when no storage operation fails
ProjectorSteps ==
    \/ ProjFetch
    \/ ProjMinted
    \/ ProjListingCreated
    \/ ProjRented
    \/ ProjCancelled
    \/ ProjDuplicateKey
    \/ ProjCommit

ListingApi ==
    \/ CreateListingDraft
    \/ NotifyListingTx
    \/ NotifyCancelTx
    \/ DeleteDraftListing

\* Listener and Projector side by side
Next ==
    \/ NewBlock
    \/ ProcessRestart
    \/ ListenerSteps
    \/ ProjStart
    \/ ProjectorSteps

Spec == Init /\ [][Next]_vars

\* the Listener alone
NextListener ==
    \/ NewBlock
    \/ ProcessRestart
    \/ Listener

SpecListener == Init /\ [][NextListener]_vars

\* the ledger after the Listener ingested a whole chain, the Projector
\* started and every entry still pending
InitProjector ==
    /\ chain \in Scenarios
    /\ height = MaxHeight
    /\ contractsReady = TRUE
    /\ events = EnqueueAll({}, Enqueueable("NFTMinted", 0, MaxHeight)
                     \cup Enqueueable("ListingCreated", 0, MaxHeight)
                     \cup Enqueueable("Rented", 0, MaxHeight)
                     \cup Enqueueable("ListingCancelled", 0, MaxHeight))
    /\ syncState = MaxHeight
    /\ nfts = {}
    /\ listings = {}
    /\ rentals = {}
    /\ drafts = InitDrafts
    /\ nextDoc = 1
    /\ lpc = "realtime"
    /\ startReturned = TRUE
    /\ lastProcessedBlock = MaxHeight
    /\ lastRealtimeBlock = MaxHeight
    /\ latestBlock = MaxHeight
    /\ bFrom = 0
    /\ bTo = 0
    /\ bPhase = 0
    /\ bRetries = 0
    /\ haltedFrom = NoState
    /\ ppc = "idle"
    /\ isRunning = TRUE
    /\ cur = NoEvent
    /\ pstep = 0
    /\ hlisting = NoListing
    /\ pre = NoDerived
    /\ tfaults = 0
    /\ lost = 0
    /\ throws = 0
    /\ restarts = 0
    /\ rebuilds = 0
    /\ snap = NoDerived
    /\ snapDone = FALSE
    /\ rebuildStep = 0
    /\ polls = NoPolls
    /\ InitContracts

\* the Projector alone, with failing storage operations
NextProjector ==
    \/ ProjectorSteps
    \/ ProjThrow

SpecProjector == InitProjector /\ [][NextProjector]_vars

\* the same with the loop of processLoop scheduled again and again: while
\* isRunning holds, each iteration ends and its timer starts the next one
SpecProjectorFair ==
    InitProjector /\ [][NextProjector]_vars /\ WF_vars(ProjectorSteps)

\* the Projector and the listing API
NextMarket ==
    \/ ProjectorSteps
    \/ ListingApi

SpecMarket == InitProjector /\ [][NextMarket]_vars

\* the first backfill has just completed one block below MaxHeight and the
\* Projector has been started: every ingested entry is pending
InitReplay ==
    /\ chain \in Scenarios
    /\ height = MaxHeight - 1
    /\ contractsReady = TRUE
    /\ events = EnqueueAll({}, Enqueueable("NFTMinted", 0, MaxHeight - 1)
                     \cup Enqueueable("ListingCreated", 0, MaxHeight - 1)
                     \cup Enqueueable("Rented", 0, MaxHeight - 1)
                     \cup Enqueueable("ListingCancelled", 0, MaxHeight - 1))
    /\ syncState = MaxHeight - 1
    /\ nfts = {}
    /\ listings = {}
    /\ rentals = {}
    /\ drafts = InitDrafts
    /\ nextDoc = 1
    /\ lpc = "realtime"
    /\ startReturned = TRUE
    /\ lastProcessedBlock = MaxHeight - 1
    /\ lastRealtimeBlock = MaxHeight - 1
    /\ latestBlock = MaxHeight - 1
    /\ bFrom = (((MaxHeight - 1) \div BATCH_SIZE) + 1) * BATCH_SIZE
    /\ bTo = MaxHeight - 1
    /\ bPhase = 0
    /\ bRetries = 0
    /\ haltedFrom = NoState
    /\ ppc = "idle"
    /\ isRunning = TRUE
    /\ cur = NoEvent
    /\ pstep = 0
    /\ hlisting = NoListing
    /\ pre = NoDerived
    /\ tfaults = 0
    /\ lost = 0
    /\ throws = 0
    /\ restarts = 0
    /\ rebuilds = 0
    /\ snap = NoDerived
    /\ snapDone = FALSE
    /\ rebuildStep = 0
    /\ polls = NoPolls
    /\ InitContracts

\* Listener and Projector side by side, and the operator's rebuild tool
NextReplay ==
    \/ NewBlock
    \/ ProcessRestart
    \/ ListenerStart
    \/ BackfillNext
    \/ BatchPhase
    \/ BatchSucceed
    \/ PollTick
    \/ ProjStart
    \/ ProjectorSteps
    \/ Rebuild

SpecReplay == InitReplay /\ [][NextReplay]_vars

\* the Projector, and the rebuild tool run on the ingested ledger
NextRebuild ==
    \/ ProjectorSteps
    \/ Rebuild

SpecRebuild == InitProjector /\ [][NextRebuild]_vars

\* the Projector and the NFT API
NextNftApi ==
    \/ ProjectorSteps
    \/ NftApi

SpecNftApi == InitProjector /\ [][NextNftApi]_vars

\* the Projector, the requests that record local workflow state, and the
\* rebuild tool
NextMaintenance ==
    \/ ProjectorSteps
    \/ CreateListingDraft
    \/ NotifyCancelTx
    \/ NotifyRentalTx
    \/ Rebuild

SpecMaintenance == InitProjector /\ [][NextMaintenance]_vars

\* the backend started again on an ingested ledger after the deployed
\* addresses were lost from its configuration
InitDegraded ==
    /\ chain \in Scenarios
    /\ height = MaxHeight
    /\ contractsReady = FALSE
    /\ events = EnqueueAll({}, Enqueueable("NFTMinted", 0, MaxHeight)
                     \cup Enqueueable("ListingCreated", 0, MaxHeight)
                     \cup Enqueueable("Rented", 0, MaxHeight)
                     \cup Enqueueable("ListingCancelled", 0, MaxHeight))
    /\ syncState = MaxHeight
    /\ nfts = {}
    /\ listings = {}
    /\ rentals = {}
    /\ drafts = InitDrafts
    /\ nextDoc = 1
    /\ InitMemory

NextDegraded ==
    \/ ListenerStartDegraded
    \/ ProjStart
    \/ ProjectorSteps
    \/ ProjThrow

SpecDegraded == InitDegraded /\ [][NextDegraded]_vars

\* the Listener on a ledger that holds malformed logs; no transport fault
InitDecode ==
    /\ chain \in {ChainUndecoded, ChainNoHash}
    /\ height = 1
    /\ contractsReady = TRUE
    /\ events = {}
    /\ syncState = NoState
    /\ nfts = {}
    /\ listings = {}
    /\ rentals = {}
    /\ drafts = InitDrafts
    /\ nextDoc = 1
    /\ InitMemory

NextDecode ==
    \/ NewBlock
    \/ ProcessRestart
    \/ ListenerStart
    \/ BackfillNext
    \/ BatchPhase
    \/ BatchDecodeThrows
    \/ BatchSucceed
    \/ PollTick

SpecDecode == InitDecode /\ [][NextDecode]_vars

\* the Listener polling and the Projector running, and Projector.stop()
NextStop ==
    \/ NewBlock
    \/ PollTick
    \/ BatchPhase
    \/ BatchSucceed
    \/ ProjectorSteps
    \/ ProjStop
    \/ ProjExit

SpecStop == InitReplay /\ [][NextStop]_vars

\* the Listener started on a short ledger and on one that is longer than
\* the safety window of the first run
InitStart ==
    /\ chain = ChainRent
    /\ height \in {1, SAFETY_WINDOW + MaxHeight}
    /\ contractsReady = TRUE
    /\ events = {}
    /\ syncState = NoState
    /\ nfts = {}
    /\ listings = {}
    /\ rentals = {}
    /\ drafts = InitDrafts
    /\ nextDoc = 1
    /\ InitMemory

NextStart ==
    \/ NewBlock
    \/ ProcessRestart
    \/ ListenerStart
    \/ BackfillNext
    \/ BatchPhase
    \/ BatchSucceed
    \/ PollTick

SpecStart == InitStart /\ [][NextStart]_vars

\* the two contracts alone; the backend is switched off
InitMarket ==
    /\ chain = {}
    /\ height = 0
    /\ contractsReady = FALSE
    /\ events = {}
    /\ syncState = NoState
    /\ nfts = {}
    /\ listings = {}
    /\ rentals = {}
    /\ drafts = {}
    /\ nextDoc = 1
    /\ InitMemory

NextContracts ==
    \/ TokenMint
    \/ TokenSetApprovalForAll
    \/ TokenApprove
    \/ TokenTransfer
    \/ Tick
    \/ Pause
    \/ ListNFT
    \/ CancelListing
    \/ Rent

SpecContracts == InitMarket /\ [][NextContracts]_vars

\* the marketplace with its owner changing the platform fee
NextFees ==
    \/ TokenMint
    \/ TokenApprove
    \/ ListNFT
    \/ SetPlatformFee
    \/ Rent

SpecFees == InitMarket /\ [][NextFees]_vars

\* the Projector with the upsert of safeUpdateNFT in its two steps, beside
\* confirmMint requests that insert AssetRecords, with failing storage
\* operations
NextUpsert ==
    \/ ProjectorSteps
    \/ ProjMintedFind
    \/ ProjMintedInsert
    \/ ProjThrow
    \/ ConfirmMint

SpecUpsert == InitProjector /\ [][NextUpsert]_vars

\* the Projector loop running while the rebuild tool executes its steps
NextRebuildLive ==
    \/ ProjectorSteps
    \/ RebuildSyncState
    \/ RebuildMarkPending
    \/ RebuildClear

SpecRebuildLive == InitProjector /\ [][NextRebuildLive]_vars

\* the first backfill has completed at block 1 and polling has started
InitOverlap ==
    /\ chain \in Scenarios
    /\ height = 1
    /\ contractsReady = TRUE
    /\ events = EnqueueAll({}, Enqueueable("NFTMinted", 0, 1)
                     \cup Enqueueable("ListingCreated", 0, 1)
                     \cup Enqueueable("Rented", 0, 1)
                     \cup Enqueueable("ListingCancelled", 0, 1))
    /\ syncState = 1
    /\ nfts = {}
    /\ listings = {}
    /\ rentals = {}
    /\ drafts = InitDrafts
    /\ nextDoc = 1
    /\ lpc = "realtime"
    /\ startReturned = TRUE
    /\ lastProcessedBlock = 1
    /\ lastRealtimeBlock = 1
    /\ latestBlock = 1
    /\ bFrom = BATCH_SIZE
    /\ bTo = 1
    /\ bPhase = 0
    /\ bRetries = 0
    /\ haltedFrom = NoState
    /\ ppc = "off"
    /\ isRunning = FALSE
    /\ cur = NoEvent
    /\ pstep = 0
    /\ hlisting = NoListing
    /\ pre = NoDerived
    /\ tfaults = 0
    /\ lost = 0
    /\ throws = 0
    /\ restarts = 0
    /\ rebuilds = 0
    /\ snap = NoDerived
    /\ snapDone = FALSE
    /\ rebuildStep = 0
    /\ polls = NoPolls
    /\ InitContracts

\* real-time polling with poll ticks that outlast the poll interval
NextOverlap ==
    \/ NewBlock
    \/ OverlapPollTick
    \/ OverlapBatchPhase
    \/ OverlapBatchFail
    \/ OverlapSaveState
    \/ OverlapStateSaved

SpecOverlap == InitOverlap /\ [][NextOverlap]_vars

\* the ingested ledger holds entries that name a listing id without
\* ListingRecord; the owner's listing drafts exist beside the Projector
InitOrphan ==
    /\ chain \in {ChainOrphan, ChainDouble}
    /\ height = MaxHeight
    /\ contractsReady = TRUE
    /\ events = EnqueueAll({}, Enqueueable("NFTMinted", 0, MaxHeight)
                     \cup Enqueueable("ListingCreated", 0, MaxHeight)
                     \cup Enqueueable("Rented", 0, MaxHeight)
                     \cup Enqueueable("ListingCancelled", 0, MaxHeight))
    /\ syncState = MaxHeight
    /\ nfts = {}
    /\ listings = {}
    /\ rentals = {}
    /\ drafts = InitDrafts
    /\ nextDoc = 1
    /\ lpc = "realtime"
    /\ startReturned = TRUE
    /\ lastProcessedBlock = MaxHeight
    /\ lastRealtimeBlock = MaxHeight
    /\ latestBlock = MaxHeight
    /\ bFrom = 0
    /\ bTo = 0
    /\ bPhase = 0
    /\ bRetries = 0
    /\ haltedFrom = NoState
    /\ ppc = "idle"
    /\ isRunning = TRUE
    /\ cur = NoEvent
    /\ pstep = 0
    /\ hlisting = NoListing
    /\ pre = NoDerived
    /\ tfaults = 0
    /\ lost = 0
    /\ throws = 0
    /\ restarts = 0
    /\ rebuilds = 0
    /\ snap = NoDerived
    /\ snapDone = FALSE
    /\ rebuildStep = 0
    /\ polls = NoPolls
    /\ InitContracts

NextOrphan ==
    \/ ProjectorSteps
    \/ CreateListingDraft
    \/ DeleteDraftListing

SpecOrphan == InitOrphan /\ [][NextOrphan]_vars

\* ------------------------------------------------------------------ claims

\* an entry that the Projector has already applied at least once
Applied(e) == e.status # "pending" \/ e.retries > 0

\* C1: the Projector applies entries in ascending (blockNumber, logIndex)
\* order: while it applies an entry, no entry ordered after it has been
\* applied before.
C1_AscendingOrder ==
    ppc = "apply" =>
        \A e \in events : Before(cur, e) => ~Applied(e)

KeysUnique == \A e1, e2 \in events : SameKey(e1, e2) => e1 = e2

\* C2: the ledger never holds two entries with one (txHash, logIndex), and
\* a Listener append leaves every existing entry exactly as it was.
C2_IdempotentAppend ==
    [][/\ KeysUnique'
       /\ (events' # events /\ ppc' = ppc) => events \subseteq events']_vars

\* C2 witness: after a restart the backfill re-scanned a block whose mint
\* entry had already been processed.
C2_Witness ==
    /\ restarts = 1
    /\ lpc = "bfBatch"
    /\ bPhase = 2
    /\ \E e \in events :
          /\ e.eventName = "NFTMinted"
          /\ e.status = "processed"
          /\ e.blockNumber >= bFrom
          /\ e.blockNumber <= bTo

\* the seller of a listing-created entry is not the owner that the
\* AssetRecord of its token holds, or the token has no AssetRecord
SellerMismatch(e) ==
    ~ \E n \in nfts :
        /\ n.tokenAddress = Lower(e.args.tokenAddress)
        /\ n.tokenId = e.args.tokenId
        /\ n.owner = Lower(e.args.who)

\* C3: applying a listing-created entry whose seller is not the current
\* owner (or whose asset is unknown) writes no ListingRecord, and the entry
\* is then marked processed with its retry counter untouched.
C3_RejectedListing ==
    [][/\ (/\ ppc = "apply"
           /\ cur.eventName = "ListingCreated"
           /\ SellerMismatch(cur)
           /\ ppc' # "apply"
           /\ throws' = throws)
          => (listings' = listings /\ ppc' = "commit")
       /\ (/\ ppc = "commit"
           /\ cur.eventName = "ListingCreated"
           /\ SellerMismatch(cur)
           /\ ppc' # "commit")
          => /\ listings' = listings
             /\ \E e \in events' :
                   /\ SameKey(e, cur)
                   /\ e.status = "processed"
                   /\ e.retries = cur.retries
                   /\ \A o \in events : SameKey(o, cur) =>
                         e.retries = o.retries]_vars

\* C3 witness: the listing 8 of seller B for the token minted by A is
\* processed and no ListingRecord 8 exists.
C3_Witness ==
    /\ \E e \in events :
          /\ e.eventName = "ListingCreated"
          /\ e.args.lid = 8
          /\ e.args.who = "B"
          /\ e.status = "processed"
    /\ \E n \in nfts : n.tokenId = 1 /\ n.owner = "a"
    /\ \A l \in listings : l.onChainListingId # 8

\* C4: at most one ListingRecord with status ACTIVE exists per asset.
C4_OneActivePerAsset ==
    \A l1, l2 \in listings :
        (/\ l1.status = "ACTIVE"
         /\ l2.status = "ACTIVE"
         /\ l1.tokenAddress = l2.tokenAddress
         /\ l1.tokenId = l2.tokenId) => l1 = l2

\* C4 witness: a draft of the owner and the projected ACTIVE listing of
\* the same asset exist side by side.
C4_Witness ==
    \E l1, l2 \in listings :
        /\ l1.status = "ACTIVE"
        /\ l1.onChainListingId # NoVal
        /\ l2.id # NoVal
        /\ l2.status \in {"LOCAL_DRAFT", "PENDING_CANCEL"}
        /\ l1.tokenAddress = l2.tokenAddress
        /\ l1.tokenId = l2.tokenId
        /\ l1.sellerAddress = l2.sellerAddress

\* C5: the persisted checkpoint never decreases (no Rebuild takes part).
C5_CheckpointMonotone == [][syncState' >= syncState]_vars

\* C6: every log with a transaction hash at or below the persisted
\* checkpoint is present in the Event Ledger.
C6_NoGapBelowCheckpoint ==
    \A l \in chain :
        (l.tx # "" /\ l.blk <= syncState) =>
            \E e \in events : e.txHash = l.tx /\ e.logIndex = l.idx

\* C7: a failed attempt on a backfill range leaves the checkpoint alone;
\* the checkpoint changes only when an attempt succeeded, and then to the
\* last block of the range, after which backfill goes on to the next range.
C7_RetryThenAdvance ==
    [][lpc = "bfBatch" =>
          /\ bRetries' = bRetries + 1 =>
                /\ syncState' = syncState
                /\ lastProcessedBlock' = lastProcessedBlock
          /\ syncState' # syncState => (bPhase = 5 /\ syncState' = bTo)
          /\ (bPhase = 5 /\ bRetries >= 1 /\ lpc' \notin {"bfBatch", "off"}) =>
                /\ syncState' = bTo
                /\ lpc' = "backfill"
                /\ bFrom' = bFrom + BATCH_SIZE]_vars

\* C7 witness: a range succeeded after at least one failed attempt and
\* backfill stands at the head of the next range.
C7_Witness ==
    /\ lpc = "backfill"
    /\ bRetries >= 1
    /\ bRetries <= MAX_RETRIES
    /\ syncState = bTo
    /\ bFrom = bTo + 1

\* C8: when a backfill range fails on every attempt the checkpoint keeps
\* its value, backfill scans no further range, and the next Listener start
\* begins scanning at or before the first block of the failed range.
C8_HaltedBackfillResumes ==
    [][/\ (lpc = "bfBatch" /\ bRetries' > MAX_RETRIES) =>
             /\ syncState' = syncState
             /\ lpc' \notin {"backfill", "bfBatch"}
       /\ (haltedFrom # NoState /\ lpc # "backfill" /\ lpc' = "backfill") =>
             bFrom' <= haltedFrom]_vars

\* the ledger entry with the key of e
Stored(evs, e) == CHOOSE x \in evs : SameKey(x, e)

C10_RetriedApplication ==
    (/\ ppc = "idle"
     /\ cur # NoEvent
     /\ cur.retries = 2
     /\ Stored(events, cur).retries = 2
     /\ Stored(events, cur).status # "pending")
    => /\ Stored(events, cur).status = "processed"
       /\ Derived = ApplyEvent(pre, cur)

\* C10 witness: a rental entry was processed on its third application and
\* its RentalRecord exists.
C10_Witness ==
    /\ ppc = "idle"
    /\ cur.eventName = "Rented"
    /\ cur.retries = 2
    /\ Stored(events, cur).status = "processed"
    /\ \E r \in rentals : r.txHash = cur.txHash

\* C11 (as stated): once the ledger was fully projected, the rebuild tool
\* ran and the Projector processed every entry again, the AssetRecords,
\* ListingRecords and RentalRecords are the same records with the same
\* field values as before the Rebuild (a ListingRecord's storage identity
\* aside).
ListingFields(l) == [l EXCEPT !.doc = 0]

RentalFields(r) == [r EXCEPT !.listingId = 0]

Replayed == rebuilds >= 1 /\ snapDone /\ ppc = "idle" /\ Pending = {}

RentScenario(m, l, r) ==
    /\ events = {m, l, r}
    /\ m.eventName = "NFTMinted"
    /\ l.eventName = "ListingCreated"
    /\ r.eventName = "Rented"
    /\ Before(m, l)
    /\ Before(l, r)
    /\ l.args.tokenId = m.args.tokenId
    /\ Lower(l.args.tokenAddress) = Lower(m.contractAddress)
    /\ l.args.who = m.args.who
    /\ r.args.lid = l.args.lid

\* C12: after asset-minted(asset, A), listing-created(L, A, asset) and
\* rental-granted(L, B, T) were projected in ledger order, the AssetRecord
\* has owner A, renter B and expiry T, ListingRecord L is RENTED and a
\* RentalRecord of L has renter B; without storage faults all three
\* entries end processed.
C12_MintListRent ==
    \A m, l, r \in events :
        (RentScenario(m, l, r) /\ ppc = "idle" /\ Pending = {}) =>
            /\ throws = 0 => \A e \in events : e.status = "processed"
            /\ (\A e \in events : e.status = "processed") =>
                  /\ \E n \in nfts :
                        /\ n.tokenAddress = Lower(m.contractAddress)
                        /\ n.tokenId = m.args.tokenId
                        /\ n.owner = Lower(m.args.who)
                        /\ n.renter = Lower(r.args.who)
                        /\ n.expiresAt = r.args.expires * 1000
                  /\ \E x \in listings :
                        /\ x.onChainListingId = l.args.lid
                        /\ x.status = "RENTED"
                        /\ \A y \in listings :
                              y.onChainListingId = l.args.lid => y = x
                  /\ \E x \in rentals :
                        /\ x.onChainListingId = l.args.lid
                        /\ x.renter = Lower(r.args.who)

\* C12 witness: the three entries of the scenario are all processed.
C12_Witness ==
    /\ ppc = "idle"
    /\ Cardinality(events) = 3
    /\ \A e \in events : e.status = "processed"
    /\ \E m, l, r \in events : RentScenario(m, l, r)

\* C13: a ListingRecord becomes ACTIVE only in the step in which the
\* Projector applies a listing-created entry of that listing whose seller
\* is the owner held by the AssetRecord; no API request makes it ACTIVE.
C13_ActiveOnlyByProjection ==
    [][\A l \in listings' :
          (/\ l.status = "ACTIVE"
           /\ ~ \E o \in listings : o.doc = l.doc /\ o.status = "ACTIVE")
          => /\ ppc = "apply"
             /\ cur.eventName = "ListingCreated"
             /\ ~SellerMismatch(cur)
             /\ l.onChainListingId = cur.args.lid]_vars

\* C14: an AssetRecord is created, or its owner, renter or expiresAt
\* changed, only in a step in which the Projector applies an asset-minted
\* entry (owner = its creator) or a rental-granted entry (renter and
\* expiry = its holder and expiry).
C14_OwnerFromLedgerOnly ==
    [][\A n \in nfts' :
          (~ \E o \in nfts :
                /\ o.tokenAddress = n.tokenAddress
                /\ o.tokenId = n.tokenId
                /\ o.owner = n.owner
                /\ o.renter = n.renter
                /\ o.expiresAt = n.expiresAt)
          => /\ ppc = "apply"
             /\ \/ /\ cur.eventName = "NFTMinted"
                   /\ n.owner = Lower(cur.args.who)
                \/ /\ cur.eventName = "Rented"
                   /\ n.renter = Lower(cur.args.who)
                   /\ n.expiresAt = cur.args.expires * 1000]_vars

\* the fields of a ledger entry that describe the log
ContentOf(e) ==
    [txHash |-> e.txHash, logIndex |-> e.logIndex,
     blockNumber |-> e.blockNumber, contractAddress |-> e.contractAddress,
     eventName |-> e.eventName, args |-> e.args]

\* C15: every step (Listener append, Projector status change, Rebuild)
\* keeps each ledger entry with its txHash, logIndex, blockNumber,
\* contractAddress, eventName and args unchanged.
C15_EntryContentFrozen ==
    [][/\ \A e \in events : \E x \in events' : ContentOf(x) = ContentOf(e)
       /\ KeysUnique']_vars

\* C15 witness: after a Rebuild the Projector processed an entry again and,
\* after a restart, the Listener re-scans the block of that entry.
C15_Witness ==
    /\ rebuilds = 1
    /\ restarts = 1
    /\ lpc = "bfBatch"
    /\ bPhase >= 2
    /\ \E e \in events :
          /\ e.status = "processed"
          /\ e.blockNumber >= bFrom
          /\ e.blockNumber <= bTo

\* C16: no entry is ever deleted; an entry's status changes only from
\* pending to processed or failed, in the step in which the Projector ends
\* the application of that entry, or to pending by the Rebuild; a Listener
\* step changes no status.
C16_StatusLifecycle ==
    [][\A e \in events :
          /\ \E x \in events' : SameKey(x, e)
          /\ \A x \in events' :
                (SameKey(x, e) /\ x.status # e.status) =>
                    \/ rebuilds' # rebuilds /\ x.status = "pending"
                    \/ /\ e.status = "pending"
                       /\ x.status \in {"processed", "failed"}
                       /\ ppc \in {"apply", "commit"}
                       /\ ppc' = "idle"
                       /\ SameKey(cur, e)]_vars

\* C16 witness: after a restart the Listener re-scans a block that holds a
\* failed entry.
C16_Witness ==
    /\ restarts = 1
    /\ lpc = "bfBatch"
    /\ bPhase >= 3
    /\ \E e \in events :
          /\ e.status = "failed"
          /\ e.blockNumber >= bFrom
          /\ e.blockNumber <= bTo

\* C17: a run of the rebuild tool leaves the ListingRecords with status
\* LOCAL_DRAFT, PENDING_CREATE or PENDING_CANCEL, the RentalRecords with
\* status PENDING and the mint drafts as they were.
C17_RebuildKeepsLocalState ==
    [][rebuilds' # rebuilds =>
          /\ {l \in listings' : l.status \in
                {"LOCAL_DRAFT", "PENDING_CREATE", "PENDING_CANCEL"}} =
             {l \in listings : l.status \in
                {"LOCAL_DRAFT", "PENDING_CREATE", "PENDING_CANCEL"}}
          /\ {r \in rentals' : r.status = "PENDING"} =
             {r \in rentals : r.status = "PENDING"}
          /\ drafts' = drafts]_vars

C19_PollingAfterBackfill ==
    [][(lpc \notin {"realtime", "rtBatch"} /\ lpc' = "realtime") =>
          (lpc = "backfill" /\ bFrom > latestBlock)]_vars

\* C20: with the contracts not configured, start() returns normally in
\* degraded mode without touching ledger or checkpoint; while degraded the
\* Listener scans nothing, the ledger gains no entry, the checkpoint keeps
\* its value, and the Projector can be started.
C20_DegradedStart ==
    [][/\ (~contractsReady /\ lpc = "off" /\ lpc' # "off") =>
             /\ lpc' = "degraded"
             /\ events' = events
             /\ syncState' = syncState
       /\ lpc' = "degraded" =>
             /\ startReturned'
             /\ bPhase' = 0
             /\ lastRealtimeBlock' = 0
       /\ lpc = "degraded" =>
             /\ lpc' = "degraded"
             /\ syncState' = syncState
             /\ {ContentOf(e) : e \in events'} =
                    {ContentOf(e) : e \in events}]_vars

\* C20 witness: the Listener is degraded and the Projector has processed a
\* previously ingested entry.
C20_Witness ==
    /\ lpc = "degraded"
    /\ ppc = "idle"
    /\ syncState = MaxHeight
    /\ \E e \in events : e.status = "processed"

\* a log processBatch can turn into a ledger entry
WellFormed(l) == l.tx # "" /\ l.idx # NoIndex /\ ~Undecoded(l)

\* the ledger holds the entry of a raw log
InLedger(evs, l) == \E e \in evs : e.txHash = l.tx /\ e.logIndex = l.idx

\* the Listener completes one of the four queries of a range or gives the
\* attempt up, and no ledger write failed in it
ScanStep ==
    /\ lpc \in {"bfBatch", "rtBatch"}
    /\ bPhase \in 1..4
    /\ lpc' # "off"
    /\ <<bPhase', bRetries'>> # <<bPhase, bRetries>>
    /\ lost' = lost
    /\ tfaults' = tfaults

\* C21: a log that cannot be decoded does not abort the scan of its range:
\* the query it belongs to completes without counting a retry, and every
\* well-formed log of that query is in the ledger afterwards.
C21_DecodeErrorSkipped ==
    [][(ScanStep /\ \E l \in QueryFilter(KindOrder[bPhase], bFrom, bTo) :
                        Undecoded(l) /\ l.tx # "") =>
          /\ bRetries' = bRetries
          /\ bPhase' = bPhase + 1
          /\ \A l \in QueryFilter(KindOrder[bPhase], bFrom, bTo) :
                 WellFormed(l) => InLedger(events', l)]_vars

\* C25: no ledger entry has an empty transaction hash or a missing log
\* index, and a query that meets such a log completes without counting a
\* retry, with every well-formed log of the query in the ledger afterwards.
C25_NoHashNeverStored ==
    [][/\ \A e \in events' : e.txHash # "" /\ e.logIndex # NoIndex
       /\ (ScanStep /\ \E l \in QueryFilter(KindOrder[bPhase], bFrom, bTo) :
                           l.tx = "" \/ l.idx = NoIndex) =>
             /\ bRetries' = bRetries
             /\ bPhase' = bPhase + 1
             /\ \A l \in QueryFilter(KindOrder[bPhase], bFrom, bTo) :
                    WellFormed(l) => InLedger(events', l)]_vars

\* C25 witness: the ranges holding the three dropped logs were scanned
\* without a retry, the checkpoint is past them and the well-formed logs
\* are in the ledger.
C25_Witness ==
    /\ chain = ChainNoHash
    /\ syncState >= 3
    /\ haltedFrom = NoState
    /\ lost = 0
    /\ {e.txHash : e \in events} = {"t1", "t2", "t4"}

\* after Projector.stop() the entry in application is completed and no
\* further entry is fetched, applied or given another status
C22_ProjectorStops ==
    [][~isRunning =>
          /\ ppc \in {"idle", "off"} =>
                /\ ppc' \in {"idle", "off"}
                /\ UNCHANGED <<cur, dvars>>
                /\ \A e \in events : e \in events'
          /\ ppc \in {"apply", "commit"} => cur' = cur
          /\ ~isRunning']_vars

\* C22: both loops honour a cooperative stop signal: after Projector.stop()
\* at most the entry in application is completed and no further entry is
\* applied; and the Listener can be told to stop while it polls.
C22_StopHonoured ==
    /\ C22_ProjectorStops
    /\ [](lpc \in {"realtime", "rtBatch"} => ENABLED ListenerClearsIsRunning)

\* C23: whenever no handler is in the middle of its writes, a listing that a
\* rental-granted entry set to RENTED has the RentalRecord keyed by that
\* entry's transaction hash.
C23_RentalWithRented ==
    ppc \in {"idle", "off"} =>
        \A l \in listings : l.status = "RENTED" =>
            \E e \in events :
                /\ e.eventName = "Rented"
                /\ e.args.lid = l.onChainListingId
                /\ \E r \in rentals : r.txHash = e.txHash

\* a draft listing of the seller and asset of a listing-created entry
IsDraftFor(d, e) ==
    /\ d.status \in {"LOCAL_DRAFT", "PENDING_CREATE"}
    /\ d.tokenAddress = Lower(e.args.tokenAddress)
    /\ d.tokenId = e.args.tokenId
    /\ d.sellerAddress = Lower(e.args.who)

\* C24: when handleListingCreated accepts an entry for which the seller has
\* a draft listing, the draft document becomes the ACTIVE listing with the
\* ledger's listing id, seller and price; afterwards one listing has that
\* id and no draft of that seller and asset is left.
C24_DraftPromoted ==
    [][(/\ ppc = "apply"
        /\ cur.eventName = "ListingCreated"
        /\ ppc' = "commit"
        /\ ~ListingRejected(nfts, cur)
        /\ \E d \in listings : IsDraftFor(d, cur)) =>
          /\ \A d \in listings : IsDraftFor(d, cur) =>
                 \E l \in listings' :
                     /\ l.doc = d.doc
                     /\ l.status = "ACTIVE"
                     /\ l.onChainListingId = cur.args.lid
                     /\ l.sellerAddress = Lower(cur.args.who)
                     /\ l.pricePerDay = cur.args.price
          /\ Cardinality({l \in listings' :
                              l.onChainListingId = cur.args.lid}) = 1
          /\ ~ \E d \in listings' : IsDraftFor(d, cur)]_vars

\* C26: a rent that the marketplace accepts makes the caller the user of
\* the listed token until block.timestamp + daysToRent days and emits Rented
\* with that expiry and pricePerDay * daysToRent; the listing and the
\* token's owner stay as they were.
C26_RentGrantsUse ==
    [][(txCount' # txCount /\ lastTx'.fn = "rent") =>
          LET listing == marketListings[lastTx'.lid]
              until == now + lastTx'.daysToRent * DAY
          IN /\ tokenUser'[listing.tokenId] = lastTx'.sender
             /\ userExpires'[listing.tokenId] = until
             /\ emitted'.kind = "Rented"
             /\ emitted'.who = lastTx'.sender
             /\ emitted'.expires = until
             /\ emitted'.totalPrice =
                    listing.pricePerDay * lastTx'.daysToRent
             /\ marketListings' = marketListings
             /\ tokenOwner' = tokenOwner]_vars

\* the (txHash, logIndex) keys of all ledgers of the model
LedgerKeys == {<<l.tx, l.idx>> : l \in UNION Scenarios}

HasStatus(k, sts) ==
    \E e \in events : e.txHash = k[1] /\ e.logIndex = k[2] /\ e.status \in sts

MintedAsset(ns, e) == FindNFT(ns, Lower(e.contractAddress), e.args.tokenId)

\* C29: the asset write of handleNFTMinted leaves one AssetRecord for the
\* entry's (contract, token id), with creator = owner = the minting address
\* and the entry's hash, transaction and block, whatever a record of that
\* key held before; the other records and the record's rental fields stay;
\* writing the same entry once more changes nothing.
C29_MintOverwrites ==
    [][(ppc = "apply" /\ cur.eventName = "NFTMinted" /\ pstep = 1
        /\ pstep' = 2) =>
          /\ Cardinality(MintedAsset(nfts', cur)) = 1
          /\ \A n \in MintedAsset(nfts', cur) :
                 /\ n.creator = Lower(cur.args.who)
                 /\ n.owner = Lower(cur.args.who)
                 /\ n.metadataHash = cur.args.metadataHash
                 /\ n.mintTxHash = cur.txHash
                 /\ n.blockNumber = cur.blockNumber
                 /\ \A o \in MintedAsset(nfts, cur) :
                        n.renter = o.renter /\ n.expiresAt = o.expiresAt
          /\ nfts' \ MintedAsset(nfts', cur) = nfts \ MintedAsset(nfts, cur)
          /\ SafeUpdateNFT(nfts', cur) = nfts']_vars

\* C29 witness: the asset write has replaced a record that confirmMint had
\* created and updateNFT had given another owner.
C29_Witness ==
    /\ ppc = "apply"
    /\ cur.eventName = "NFTMinted"
    /\ pstep = 2
    /\ \E o \in MintedAsset(pre.nfts, cur) :
          o.mintTxHash = "u" /\ o.owner # Lower(cur.args.who)
    /\ \E n \in MintedAsset(nfts, cur) :
          n.mintTxHash = cur.txHash /\ n.owner = Lower(cur.args.who)

\* C30: every ACTIVE listing names an asset that has an AssetRecord whose
\* owner is the listing's seller.
C30_ActiveListingOwned ==
    \A l \in listings : l.status = "ACTIVE" =>
        \E n \in nfts :
            /\ n.tokenAddress = l.tokenAddress
            /\ n.tokenId = l.tokenId
            /\ n.owner = l.sellerAddress

C32_FailedPollRescanned ==
    [][/\ (lpc = "rtBatch" /\ bRetries' > MAX_RETRIES) =>
             /\ lpc' = "realtime"
             /\ lastRealtimeBlock' = lastRealtimeBlock
             /\ lastProcessedBlock' = lastProcessedBlock
             /\ syncState' = syncState
       /\ (lpc = "realtime" /\ lpc' = "rtBatch") =>
             /\ bFrom' = lastRealtimeBlock + 1
             /\ bTo' = height
       /\ (lpc = "rtBatch" /\ lpc' # "off") =>
             /\ bFrom' = bFrom
             /\ bFrom = lastRealtimeBlock + 1
             /\ lastRealtimeBlock' # lastRealtimeBlock =>
                    (bPhase = 5 /\ lastRealtimeBlock' = bTo)]_vars

\* C32 witness: a poll tick starts on a range of which an earlier tick,
\* given up after all attempts, had already stored an entry.
C32_Witness ==
    /\ lpc = "rtBatch"
    /\ bPhase = 1
    /\ bRetries = 0
    /\ restarts = 0
    /\ haltedFrom = NoState
    /\ bFrom = lastRealtimeBlock + 1
    /\ \E e \in events : e.blockNumber >= bFrom

\* C33: while no storage operation and no transport request has failed, no
\* ledger entry has status failed.
C33_NoFailedEntry ==
    (throws = 0 /\ tfaults = 0 /\ lost = 0) =>
        \A e \in events : e.status # "failed"

\* the derived records hold what the processed entry e wrote: the
\* AssetRecord of a mint, the ListingRecord of a listing by the asset's
\* owner, the RentalRecord of a rental of a recorded listing
EffectPresent(e) ==
    /\ (e.eventName = "NFTMinted" /\ e.args.who # "") =>
           MintedAsset(nfts, e) # {}
    /\ (e.eventName = "ListingCreated" /\ ~SellerMismatch(e)) =>
           \E l \in listings : l.onChainListingId = e.args.lid
    /\ (e.eventName = "Rented"
           /\ \E l \in listings : l.onChainListingId = e.args.lid) =>
           \E r \in rentals : r.txHash = e.txHash

\* C34: once a run of the rebuild tool has finished and no entry is pending
\* or in application, the derived records hold the effects of every
\* processed entry.
C34_RebuildBesideProjector ==
    (rebuilds >= 1 /\ rebuildStep = 0 /\ ppc = "idle" /\ Pending = {}) =>
        \A e \in events : e.status = "processed" => EffectPresent(e)

\* every log up to block b is in the ledger, so ticks that scan from
\* b + 1 leave no block out
ScannedUpTo(b) ==
    \A l \in chain : (l.tx # "" /\ l.blk <= b) => InLedger(events, l)

\* C35: with overlapping executions of pollOnce the in-memory and the
\* persisted checkpoint never decrease, lastRealtimeBlock is only set to
\* the last block of a range that an execution scanned completely, and every
\* block up to lastRealtimeBlock has been scanned.
C35_OverlappingPolls ==
    [][/\ lastProcessedBlock' >= lastProcessedBlock
       /\ syncState' >= syncState
       /\ lastRealtimeBlock' # lastRealtimeBlock =>
             \E i \in Executions :
                 /\ polls[i].phase = 5
                 /\ polls[i].to = lastRealtimeBlock'
       /\ ScannedUpTo(lastRealtimeBlock)']_vars

\* no ListingRecord carries the listing id of entry e
NoListingOf(e) == \A l \in listings : l.onChainListingId # e.args.lid

\* C36: applying a rental-granted or listing-cancelled entry whose listing
\* id has no ListingRecord writes no RentalRecord, no AssetRecord and no
\* ListingRecord, and the entry is then marked processed with its retry
\* counter untouched.
C36_OrphanNoOp ==
    [][/\ (/\ ppc = "apply"
           /\ cur.eventName \in {"Rented", "ListingCancelled"}
           /\ NoListingOf(cur)) =>
             /\ rentals' = rentals
             /\ nfts' = nfts
             /\ events' = events
             /\ IF ppc' = "apply"
                THEN pstep' = pstep /\ cur' = cur
                ELSE ppc' = "commit" /\ listings' = listings
       /\ (/\ ppc = "commit"
           /\ cur.eventName \in {"Rented", "ListingCancelled"}
           /\ NoListingOf(cur)
           /\ ppc' # "commit") =>
             /\ UNCHANGED <<nfts, listings, rentals>>
             /\ Stored(events', cur).status = "processed"
             /\ Stored(events', cur).retries = cur.retries]_vars

\* C36 witness: the rental and the cancellation of listing 8, whose
\* listing-created entry was rejected, are processed; no record of listing
\* 8 and no RentalRecord exist and the asset has no renter, while a draft
\* listing of the owner exists.
C36_Witness ==
    /\ chain = ChainOrphan
    /\ ppc = "idle"
    /\ \A e \in events : e.status = "processed" /\ e.retries = 0
    /\ \A l \in listings : l.onChainListingId # 8
    /\ \E l \in listings : l.status = "LOCAL_DRAFT"
    /\ rentals = {}
    /\ \E n \in nfts : n.tokenId = 1 /\ n.renter = "" /\ n.expiresAt = NoVal

\* C37: a rent is executed only on an active listing whose token has no
\* unexpired user and is still owned by the seller, and with a payment of at
\* least pricePerDay * days; a cancelListing is executed only on an active
\* listing and by its seller or the marketplace owner and makes it inactive;
\* a listing that was created and is inactive stays inactive, so it is
\* never rented again.
C37_RentAndCancelGuards ==
    [][/\ (txCount' # txCount /\ lastTx'.fn = "rent") =>
             LET listing == marketListings[lastTx'.lid]
             IN /\ listing.isActive
                /\ userExpires[listing.tokenId] < now
                /\ tokenOwner[listing.tokenId] = listing.seller
                /\ lastTx'.value >= listing.pricePerDay * lastTx'.daysToRent
       /\ (txCount' # txCount /\ lastTx'.fn = "cancelListing") =>
             /\ marketListings[lastTx'.lid].isActive
             /\ \/ lastTx'.sender = marketListings[lastTx'.lid].seller
                \/ lastTx'.sender = MarketOwner
             /\ ~marketListings'[lastTx'.lid].isActive
       /\ \A i \in ListingIds :
             (i < nextListingId /\ ~marketListings[i].isActive) =>
                 ~marketListings'[i].isActive
       /\ txCount' = txCount =>
             UNCHANGED <<marketListings, nextListingId, tokenOwner,
                         tokenUser, userExpires, emitted>>]_vars

\* C37 witness: the marketplace owner, who is not the seller, has cancelled
\* a listing that was rented before; the seller still owns the token and the
\* marketplace is still approved, so only the listing's inactivity and the
\* unexpired user stand against another rent.
C37_Witness ==
    \E i \in ListingIds :
        /\ i < nextListingId
        /\ ~marketListings[i].isActive
        /\ lastTx.fn = "cancelListing"
        /\ lastTx.lid = i
        /\ lastTx.sender = MarketOwner
        /\ marketListings[i].seller # MarketOwner
        /\ tokenOwner[marketListings[i].tokenId] = marketListings[i].seller
        /\ MarketApproved(marketListings[i].seller, marketListings[i].tokenId)
        /\ tokenUser[marketListings[i].tokenId] # ""
        /\ userExpires[marketListings[i].tokenId] >= now
        /\ ~paused

\* C38: every executed rent transfers to the seller, the treasury and the
\* caller amounts that add up to msg.value: the fee is totalPrice *
\* platformFeeBasisPoints / 10000 rounded down, the seller receives
\* totalPrice minus the fee, which is not negative, the caller is refunded
\* msg.value minus totalPrice, and the balance of the contract is the same
\* after the rent as before it.
C38_PayoutsAddUp ==
    [][(txCount' # txCount /\ lastTx'.fn = "rent") =>
          LET listing == marketListings[lastTx'.lid]
              totalPrice == listing.pricePerDay * lastTx'.daysToRent
              platformFee == CHOOSE f \in 0..totalPrice :
                  /\ f * BASIS_POINTS <= totalPrice * platformFeeBasisPoints
                  /\ (f + 1) * BASIS_POINTS > totalPrice * platformFeeBasisPoints
          IN /\ paid'.platformFee = platformFee
             /\ paid'.sellerAmount = totalPrice - platformFee
             /\ paid'.sellerAmount >= 0
             /\ paid'.refund = lastTx'.value - totalPrice
             /\ paid'.sellerAmount + paid'.platformFee + paid'.refund
                    = lastTx'.value
             /\ marketBalance' = marketBalance]_vars

\* C38 witness: a rent was overpaid while the fee rate was one that leaves a
\* remainder, so that the fee was rounded down, and all three transfers
\* were made.
C38_Witness ==
    /\ lastTx.fn = "rent"
    /\ emitted.kind = "Rented"
    /\ (emitted.totalPrice * platformFeeBasisPoints) % BASIS_POINTS # 0
    /\ paid.platformFee > 0
    /\ paid.sellerAmount > 0
    /\ paid.refund > 0
    /\ paid.sellerAmount # paid.platformFee

====
